---- MODULE Spec2Model ----
(***************************************************************************)
(* The Data Quality Rules Engine of scripts/dq_rules_engine.py: the rule   *)
(* catalog (load_rules, programmatic append), validate_data with its       *)
(* eight validators, generate_report with the files it writes, and the     *)
(* clock that no_future_dates and the report's timestamp read; the         *)
(* validate-csv endpoint of app/api/dq_engine.py that runs one engine per  *)
(* request; and the laboratory metrics of app/metrics computed over the    *)
(* specimens table.                                                        *)
(*                                                                         *)
(* A dataset is a pandas DataFrame as pd.read_csv builds it: every column  *)
(* has a dtype and one cell per row.  Row positions are 0-based, as        *)
(* df.index.tolist() reports them.                                         *)
(***************************************************************************)
EXTENDS Integers, Sequences, FiniteSets, TLC

VARIABLES
    rules,       \* self.rules of the engine
    violations,  \* self.violations of the engine
    df,          \* the caller's DataFrame
    now,         \* the wall clock, read by pd.Timestamp.now()
    call,        \* the last operation performed on the engine
    outcome,     \* how that operation ended: "ok", "raised" or "exit"
    ret,         \* the list returned by the last validate_data call
    vday,        \* the value of `today` the last validate_data call computed
    log,         \* history: the rules the caller has added so far, in order
    pre,         \* history: what the last call started from
    report,      \* the report the last generate_report call built and returned
    disk,        \* the files of the output directory
    requests,    \* the validate-csv requests: each one's position, engine and response
    specimens,   \* the rows of the specimens table, in insertion order
    metrics      \* the last metrics request and what it returned

vars == <<rules, violations, df, now, call, outcome, ret, vday, log, pre, report, disk,
          requests, specimens, metrics>>

(***************************************************************************)
(* Bounds of the model.                                                    *)
(***************************************************************************)
MaxRows  == 2   \* rows of a dataset
MaxRequests == 2   \* validate-csv requests
MaxSpecimens == 3  \* rows of the specimens table
MaxRules == 2   \* rules of a catalog
MaxDoc   == 2   \* entries of a rule document
MaxNow   == 2   \* last instant of the clock

\* Instants per calendar day: Timestamp.normalize() floors to a multiple.
DayLen == 2

SeqsUpTo(S, n) == UNION {[1..k -> S] : k \in 0..n}

RECURSIVE SelectIdx(_, _, _)
\* The 0-based positions i-1 (ascending) of the rows i in from..n with P[i].
SelectIdx(P, from, n) ==
    IF from > n THEN <<>>
    ELSE (IF P[from] THEN <<from - 1>> ELSE <<>>) \o SelectIdx(P, from + 1, n)

(***************************************************************************)
(* Cells.  k is the cell's Python type, v its content:                     *)
(*   nan  a missing value (NaN / None)                                     *)
(*   str  text; v >= 1 is a date string naming instant v, v <= 0 is text   *)
(*        that is no date                                                  *)
(*   num  the number v                                                     *)
(*   ts   the pandas Timestamp of instant v;  nat is NaT                   *)
(***************************************************************************)
NaN    == [k |-> "nan", v |-> 0]
NaT    == [k |-> "nat", v |-> 0]
Str(x) == [k |-> "str", v |-> x]
Num(x) == [k |-> "num", v |-> x]
Ts(x)  == [k |-> "ts",  v |-> x]

ColNames == {"received_at", "processed_at", "status"}

\* The dtype pd.read_csv infers for a column of parsed fields.
InferDtype(vals) ==
    IF Len(vals) = 0 THEN "object"
    ELSE IF \A i \in 1..Len(vals) : vals[i].k \in {"num", "nan"} THEN "float64"
    ELSE "object"

Column(vals) == [dtype |-> InferDtype(vals), vals |-> vals]

\* A DataFrame of n rows: data maps each column name present to its column.
Frame(n, data) == [n |-> n, data |-> data]

HasCol(d, c) == c \in DOMAIN d.data

\* pd.api.types.is_numeric_dtype
IsNumericDtype(col) == col.dtype \in {"float64", "int64"}

\* One value of pd.to_datetime(..., errors='coerce').
ParseCell(c) == IF c.k = "str" /\ c.v >= 1 THEN Ts(c.v)
                ELSE IF c.k = "ts" THEN c
                ELSE NaT

\* pd.to_datetime(series, errors='coerce') on a whole column.
ToDatetimeCoerce(col) ==
    [dtype |-> "datetime64", vals |-> [i \in 1..Len(col.vals) |-> ParseCell(col.vals[i])]]

\* df_copy[col] = pd.to_datetime(df_copy[col], errors='coerce') when the column is object
ConvertIfObject(d, c) ==
    IF d.data[c].dtype = "object"
    THEN [d EXCEPT !.data[c] = ToDatetimeCoerce(d.data[c])]
    ELSE d

(***************************************************************************)
(* Rules (DQRule) and violations (DQViolation).                            *)
(*                                                                         *)
(* rule.parameters is a Python dict: keys holds the keys present, and the  *)
(* other fields hold their values.  The dict of a data_types rule          *)
(* {column: type} is columns and types, in the dict's insertion order.     *)
(* threshold is the fraction num/den.                                      *)
(***************************************************************************)
NoParams ==
    [keys |-> {}, columns |-> <<>>, types |-> <<>>,
     received_column |-> "", processed_column |-> "", column |-> "",
     allowed_values |-> <<>>, min |-> 0, max |-> 0,
     threshold |-> [num |-> 0, den |-> 1]]

DQRule(name, description, rule_type, parameters, severity) ==
    [name |-> name, description |-> description, rule_type |-> rule_type,
     parameters |-> parameters, severity |-> severity]

\* rule.parameters.get(key, default)
Param(rule, key, default) ==
    IF key \in rule.parameters.keys THEN rule.parameters[key] ELSE default

\* A formatted text or a diagnostic value: what kind it is, and the column
\* names, cells and numbers it was built from.
Fmt(tag, cols, items, a, b) ==
    [tag |-> tag, cols |-> cols, items |-> items, a |-> a, b |-> b]

None == Fmt("None", <<>>, <<>>, 0, 0)

DQViolation(rule, description, row_indices, column, value, expected) ==
    [rule_name |-> rule.name, description |-> description,
     severity |-> rule.severity, row_indices |-> row_indices,
     column |-> column, value |-> value, expected |-> expected]

\* What one validator did: the violations it appended to self.violations,
\* the exception it raised ("" when it returned), and the caller's frame
\* as the validator left it.
Done(out, d)          == [out |-> out, fault |-> "", df |-> d]
Raised(out, fault, d) == [out |-> out, fault |-> fault, df |-> d]

\* The mutation of DfCopy that shares the caller's frame.
DfAlias(d) == [frame |-> d, aliased |-> TRUE]

\* df_copy = df.copy(): a frame of its own with the same content.
DfCopy(d) == [frame |-> d, aliased |-> FALSE]

\* The caller's frame after a validator wrote `written` into its working
\* frame w.
CallerFrame(d, w, written) == IF w.aliased THEN written ELSE d

RECURSIVE ListMissing(_, _, _)
\* The mutation of MissingCols that lists the columns found.
ListMissing(d, required, i) ==
    IF i > Len(required) THEN <<>>
    ELSE (IF HasCol(d, required[i]) THEN <<required[i]>> ELSE <<>>)
         \o ListMissing(d, required, i + 1)

RECURSIVE MissingCols(_, _, _)
\* [col for col in required_cols if col not in df.columns], from entry i on
MissingCols(d, required, i) ==
    IF i > Len(required) THEN <<>>
    ELSE (IF ~HasCol(d, required[i]) THEN <<required[i]>> ELSE <<>>)
         \o MissingCols(d, required, i + 1)

CheckRequiredColumns(d, rule) ==
    LET required_cols == Param(rule, "columns", <<>>)
        missing_cols  == MissingCols(d, required_cols, 1)
    IN  IF Len(missing_cols) > 0
        THEN Done(<<DQViolation(rule,
                        Fmt("Missing required columns", missing_cols, <<>>, 0, 0),
                        <<>>, Fmt("column", <<"schema">>, <<>>, 0, 0), None, None)>>, d)
        ELSE Done(<<>>, d)

\* Series >= Series is defined between two datetime64 columns and between
\* two numeric columns; otherwise pandas raises TypeError.
Comparable(c1, c2) ==
    \/ c1.dtype = "datetime64" /\ c2.dtype = "datetime64"
    \/ IsNumericDtype(c1) /\ IsNumericDtype(c2)

\* One element of lhs >= rhs: False as soon as either side is NaT / NaN.
CellGE(x, y) ==
    /\ x.k = y.k
    /\ x.k \in {"ts", "num"}
    /\ x.v >= y.v

CheckTimestampOrder(d, rule) ==
    LET received_col  == Param(rule, "received_column", "received_at")
        processed_col == Param(rule, "processed_column", "processed_at")
    IN  IF HasCol(d, received_col) /\ HasCol(d, processed_col)
        THEN LET w       == DfCopy(d)
                 df_copy == ConvertIfObject(ConvertIfObject(w.frame, received_col),
                                            processed_col)
                 after   == CallerFrame(d, w, df_copy)
                 R       == df_copy.data[received_col]
                 P       == df_copy.data[processed_col]
             IN  IF ~Comparable(R, P) THEN Raised(<<>>, "TypeError", after)
                 ELSE LET bad == [i \in 1..d.n |-> CellGE(R.vals[i], P.vals[i])]
                          invalid_rows == SelectIdx(bad, 1, d.n)
                      IN  IF Len(invalid_rows) > 0
                          THEN Done(<<DQViolation(rule,
                                       Fmt("Invalid timestamp order", <<>>, <<>>,
                                           Len(invalid_rows), 0),
                                       invalid_rows,
                                       Fmt("/", <<received_col, processed_col>>, <<>>, 0, 0),
                                       None, None)>>, after)
                          ELSE Done(<<>>, after)
        ELSE Done(<<>>, d)

\* pd.Timestamp.now().normalize(): midnight of the current day.
Normalize(t) == t - (t % DayLen)

RECURSIVE NoFutureFrom(_, _, _, _, _)
\* The loop over timestamp_cols from entry i on.
NoFutureFrom(d, rule, today, cols, i) ==
    IF i > Len(cols) THEN Done(<<>>, d)
    ELSE LET col == cols[i]
         IN  IF ~HasCol(d, col) THEN NoFutureFrom(d, rule, today, cols, i + 1)
             ELSE LET w       == DfCopy(d)
                      df_copy == ConvertIfObject(w.frame, col)
                      after   == CallerFrame(d, w, df_copy)
                      C       == df_copy.data[col]
                  IN  \* Series > Timestamp is defined for a datetime64 column only
                      IF C.dtype # "datetime64" THEN Raised(<<>>, "TypeError", after)
                      ELSE LET fut == [r \in 1..d.n |-> C.vals[r].k = "ts" /\ C.vals[r].v > today]
                               future_dates == SelectIdx(fut, 1, d.n)
                               here == IF Len(future_dates) > 0
                                       THEN <<DQViolation(rule,
                                                Fmt("Future dates found", <<col>>, <<>>,
                                                    Len(future_dates), 0),
                                                future_dates,
                                                Fmt("column", <<col>>, <<>>, 0, 0),
                                                None, None)>>
                                       ELSE <<>>
                               rest == NoFutureFrom(after, rule, today, cols, i + 1)
                           IN  [rest EXCEPT !.out = here \o @]

CheckNoFutureDates(d, rule, clock) ==
    LET timestamp_cols == Param(rule, "columns", <<"received_at", "processed_at">>)
        today          == Normalize(clock)
    IN  NoFutureFrom(d, rule, today, timestamp_cols, 1)

\* x in list
IsIn(x, list) == \E j \in 1..Len(list) : list[j] = x

\* The mutation of UniqueCells that keeps every occurrence.
EveryCell(vals, seen, i) == SubSeq(vals, i, Len(vals))

RECURSIVE UniqueCells(_, _, _)
\* Series.unique(): the distinct cells of vals[i..], those of `seen` left
\* out, in the order of their first occurrence.
UniqueCells(vals, seen, i) ==
    IF i > Len(vals) THEN <<>>
    ELSE IF IsIn(vals[i], seen) THEN UniqueCells(vals, seen, i + 1)
    ELSE <<vals[i]>> \o UniqueCells(vals, Append(seen, vals[i]), i + 1)

\* The cells of vals at the 0-based positions idx.
Take(vals, idx) == [j \in 1..Len(idx) |-> vals[idx[j] + 1]]

CheckAllowedValues(d, rule) ==
    LET column         == Param(rule, "column", "")
        allowed_values == Param(rule, "allowed_values", <<>>)
    IN  IF column # "" /\ HasCol(d, column)
        THEN LET vals == d.data[column].vals
                 bad  == [i \in 1..d.n |-> ~IsIn(vals[i], allowed_values)]
                 invalid_rows   == SelectIdx(bad, 1, d.n)
                 unique_invalid == UniqueCells(Take(vals, invalid_rows), <<>>, 1)
             IN  IF Len(invalid_rows) > 0
                 THEN Done(<<DQViolation(rule,
                              Fmt("Invalid values", <<column>>, unique_invalid, 0, 0),
                              invalid_rows,
                              Fmt("column", <<column>>, <<>>, 0, 0),
                              Fmt("list", <<>>, unique_invalid, 0, 0),
                              Fmt("list", <<>>, allowed_values, 0, 0))>>, d)
                 ELSE Done(<<>>, d)
        ELSE Done(<<>>, d)

\* The mutation of AllRows that counts the rows from one.
AllRowsFromOne(d) == [i \in 1..d.n |-> i]

\* df.index.tolist(): every row position, ascending.
AllRows(d) == [i \in 1..d.n |-> i - 1]

\* pd.to_datetime(series, errors='raise') raises on text that is no date.
ToDatetimeRaises(col) == \E i \in 1..Len(col.vals) : col.vals[i].k = "str" /\ col.vals[i].v < 1

RECURSIVE DataTypesFrom(_, _, _, _, _)
\* The loop over type_checks.items() from entry i on.
DataTypesFrom(d, rule, cols, types, i) ==
    IF i > Len(cols) THEN <<>>
    ELSE LET col == cols[i]
             expected_type == types[i]
             v(tag) == <<DQViolation(rule, Fmt(tag, <<col>>, <<>>, 0, 0), AllRows(d),
                                     Fmt("column", <<col>>, <<>>, 0, 0), None,
                                     Fmt(expected_type, <<>>, <<>>, 0, 0))>>
             here == IF ~HasCol(d, col) THEN <<>>
                     ELSE IF expected_type = "datetime"
                     THEN (IF ToDatetimeRaises(d.data[col])
                           THEN v("cannot be converted to datetime") ELSE <<>>)
                     ELSE IF expected_type = "numeric"
                     THEN (IF ~IsNumericDtype(d.data[col]) THEN v("is not numeric") ELSE <<>>)
                     ELSE <<>>
         IN  here \o DataTypesFrom(d, rule, cols, types, i + 1)

CheckDataTypes(d, rule) ==
    IF "columns" \in rule.parameters.keys
    THEN Done(DataTypesFrom(d, rule, rule.parameters.columns, rule.parameters.types, 1), d)
    ELSE Done(<<>>, d)

\* The mutation of Below that takes the bound itself as below it.
AtOrBelow(c, bound) == c.k = "num" /\ c.v <= bound

\* One element of df[column] < min_val: False on a missing value.
Below(c, bound) == c.k = "num" /\ c.v < bound

\* One element of df[column] > max_val: False on a missing value.
Above(c, bound) == c.k = "num" /\ c.v > bound

CheckRangeCheck(d, rule) ==
    LET column  == Param(rule, "column", "")
        has_min == "min" \in rule.parameters.keys
        has_max == "max" \in rule.parameters.keys
        min_val == rule.parameters.min
        max_val == rule.parameters.max
    IN  IF column # "" /\ HasCol(d, column) /\ IsNumericDtype(d.data[column])
        THEN LET vals == d.data[column].vals
                 lo == [i \in 1..d.n |-> Below(vals[i], min_val)]
                 hi == [i \in 1..d.n |-> Above(vals[i], max_val)]
                 below_min == SelectIdx(lo, 1, d.n)
                 above_max == SelectIdx(hi, 1, d.n)
                 col == Fmt("column", <<column>>, <<>>, 0, 0)
             IN  Done((IF has_min /\ Len(below_min) > 0
                       THEN <<DQViolation(rule,
                                Fmt("Values below minimum", <<column>>, <<>>, min_val, Len(below_min)),
                                below_min, col, Fmt("<", <<>>, <<>>, min_val, 0), None)>>
                       ELSE <<>>)
                      \o
                      (IF has_max /\ Len(above_max) > 0
                       THEN <<DQViolation(rule,
                                Fmt("Values above maximum", <<column>>, <<>>, max_val, Len(above_max)),
                                above_max, col, Fmt(">", <<>>, <<>>, max_val, 0), None)>>
                       ELSE <<>>), d)
        ELSE Done(<<>>, d)

\* The values of row i over the columns of the subset.
Combo(d, columns, i) == [j \in 1..Len(columns) |-> d.data[columns[j]].vals[i]]

\* The mutation of Duplicated that spares the first row of a group (keep='first').
DuplicatedAfterFirst(d, columns, i) ==
    \E k \in 1..(i - 1) : Combo(d, columns, k) = Combo(d, columns, i)

\* df.duplicated(subset=columns, keep=False) at row i: another row holds
\* the same values; missing values count as equal.
Duplicated(d, columns, i) ==
    \E k \in 1..d.n : k # i /\ Combo(d, columns, k) = Combo(d, columns, i)

CheckUniqueness(d, rule) ==
    LET columns == Param(rule, "columns", <<>>)
    IN  IF Len(columns) > 0
        THEN \* DataFrame.duplicated raises KeyError on a subset column the frame lacks
             IF \E j \in 1..Len(columns) : ~HasCol(d, columns[j])
             THEN Raised(<<>>, "KeyError", d)
             ELSE LET dup == [i \in 1..d.n |-> Duplicated(d, columns, i)]
                      duplicates == SelectIdx(dup, 1, d.n)
                  IN  IF Len(duplicates) > 0
                      THEN Done(<<DQViolation(rule,
                                   Fmt("Duplicate values found", columns, <<>>, Len(duplicates), 0),
                                   duplicates, Fmt(", ", columns, <<>>, 0, 0), None, None)>>, d)
                      ELSE Done(<<>>, d)
        ELSE Done(<<>>, d)

\* Series.isna() of one cell.
IsNa(c) == c.k \in {"nan", "nat"}

\* The mutation of Exceeds that takes a fraction equal to the threshold as
\* exceeding it.
ReachesOrExceeds(missing_count, n, threshold) ==
    n > 0 /\ missing_count * threshold.den >= threshold.num * n

\* missing_count / len(df) > threshold.  On an empty frame the quotient is
\* nan, and nan > threshold is False.
Exceeds(missing_count, n, threshold) ==
    n > 0 /\ missing_count * threshold.den > threshold.num * n

RECURSIVE CompletenessFrom(_, _, _, _, _)
\* The loop over columns from entry i on.
CompletenessFrom(d, rule, columns, threshold, i) ==
    IF i > Len(columns) THEN <<>>
    ELSE LET col == columns[i]
             here ==
                IF ~HasCol(d, col) THEN <<>>
                ELSE LET vals == d.data[col].vals
                         na   == [r \in 1..d.n |-> IsNa(vals[r])]
                         rows == SelectIdx(na, 1, d.n)
                         missing_count == Len(rows)
                     IN  IF Exceeds(missing_count, d.n, threshold)
                         THEN <<DQViolation(rule,
                                  Fmt("Missing values", <<col>>, <<>>, missing_count, d.n),
                                  rows, Fmt("column", <<col>>, <<>>, 0, 0),
                                  Fmt("missing", <<>>, <<>>, missing_count, d.n),
                                  Fmt("<= threshold missing", <<>>, <<>>,
                                      threshold.num, threshold.den))>>
                         ELSE <<>>
         IN  here \o CompletenessFrom(d, rule, columns, threshold, i + 1)

CheckCompleteness(d, rule) ==
    LET columns   == Param(rule, "columns", <<>>)
        threshold == Param(rule, "threshold", [num |-> 0, den |-> 1])
    IN  Done(CompletenessFrom(d, rule, columns, threshold, 1), d)

(***************************************************************************)
(* validate_data: the reset of self.violations and the dispatch loop.      *)
(***************************************************************************)
\* The mutation of CheckRule that rejects a rule of an unknown kind.
CheckRuleStrict(d, rule, clock) ==
    CASE rule.rule_type = "required_columns" -> CheckRequiredColumns(d, rule)
      [] rule.rule_type = "timestamp_order"  -> CheckTimestampOrder(d, rule)
      [] rule.rule_type = "no_future_dates"  -> CheckNoFutureDates(d, rule, clock)
      [] rule.rule_type = "allowed_values"   -> CheckAllowedValues(d, rule)
      [] rule.rule_type = "data_types"       -> CheckDataTypes(d, rule)
      [] rule.rule_type = "range_check"      -> CheckRangeCheck(d, rule)
      [] rule.rule_type = "uniqueness"       -> CheckUniqueness(d, rule)
      [] rule.rule_type = "completeness"     -> CheckCompleteness(d, rule)
      [] OTHER                               -> Raised(<<>>, "ValueError", d)

\* The mutation of CheckRule that leaves out the rules of severity INFO.
CheckRuleAboveInfo(d, rule, clock) ==
    IF rule.severity = "INFO" THEN Done(<<>>, d)
    ELSE CASE rule.rule_type = "required_columns" -> CheckRequiredColumns(d, rule)
           [] rule.rule_type = "timestamp_order"  -> CheckTimestampOrder(d, rule)
           [] rule.rule_type = "no_future_dates"  -> CheckNoFutureDates(d, rule, clock)
           [] rule.rule_type = "allowed_values"   -> CheckAllowedValues(d, rule)
           [] rule.rule_type = "data_types"       -> CheckDataTypes(d, rule)
           [] rule.rule_type = "range_check"      -> CheckRangeCheck(d, rule)
           [] rule.rule_type = "uniqueness"       -> CheckUniqueness(d, rule)
           [] rule.rule_type = "completeness"     -> CheckCompleteness(d, rule)
           [] OTHER                               -> Done(<<>>, d)

\* The if / elif chain on rule.rule_type; no branch, hence nothing, for
\* any other kind.
CheckRule(d, rule, clock) ==
    CASE rule.rule_type = "required_columns" -> CheckRequiredColumns(d, rule)
      [] rule.rule_type = "timestamp_order"  -> CheckTimestampOrder(d, rule)
      [] rule.rule_type = "no_future_dates"  -> CheckNoFutureDates(d, rule, clock)
      [] rule.rule_type = "allowed_values"   -> CheckAllowedValues(d, rule)
      [] rule.rule_type = "data_types"       -> CheckDataTypes(d, rule)
      [] rule.rule_type = "range_check"      -> CheckRangeCheck(d, rule)
      [] rule.rule_type = "uniqueness"       -> CheckUniqueness(d, rule)
      [] rule.rule_type = "completeness"     -> CheckCompleteness(d, rule)
      [] OTHER                               -> Done(<<>>, d)

\* The mutation of AppendViolations that puts a rule's violations first.
PrependViolations(acc, out) == out \o acc

\* self.violations.append(violation), for each violation of one rule.
AppendViolations(acc, out) == acc \o out

RECURSIVE RunRules(_, _, _, _, _)
\* for rule in self.rules, from rule i on, with self.violations = acc.
RunRules(rs, i, d, clock, acc) ==
    IF i > Len(rs) THEN [violations |-> acc, fault |-> "", df |-> d]
    ELSE LET r == CheckRule(d, rs[i], clock)
         IN  IF r.fault # ""
             THEN [violations |-> AppendViolations(acc, r.out), fault |-> r.fault, df |-> r.df]
             ELSE RunRules(rs, i + 1, r.df, clock, AppendViolations(acc, r.out))

\* The mutation of ResetViolations that keeps the list of the run before.
KeepViolations(old) == old

\* self.violations = []
ResetViolations(old) == <<>>

ValidateData(rs, old, d, clock) == RunRules(rs, 1, d, clock, ResetViolations(old))

(***************************************************************************)
(* load_rules.  A document is what yaml.safe_load makes of the file:       *)
(* parse says whether it parsed, entries are the mappings under `rules`,  *)
(* each with the set of keys it holds.                                     *)
(***************************************************************************)
Entry(keys, rule) ==
    [keys |-> keys, name |-> rule.name, description |-> rule.description,
     rule_type |-> rule.rule_type, parameters |-> rule.parameters,
     severity |-> rule.severity]

\* DQRule(name=rule_data['name'], ..., severity=rule_data.get('severity', 'ERROR'))
RuleOf(e) ==
    DQRule(e.name, e.description, e.rule_type,
           IF "parameters" \in e.keys THEN e.parameters ELSE NoParams,
           IF "severity" \in e.keys THEN e.severity ELSE "ERROR")

\* rule_data['name'], rule_data['description'] or rule_data['rule_type'] raises KeyError
Malformed(e) == ~({"name", "description", "rule_type"} \subseteq e.keys)

\* The mutation of AddRule that puts the new rule first.
AddRuleFirst(rs, rule) == <<rule>> \o rs

\* self.rules.append(rule)
AddRule(rs, rule) == Append(rs, rule)

RECURSIVE LoadFrom(_, _, _)
\* for rule_data in rules_data.get('rules', []), from entry i on.
LoadFrom(entries, i, rs) ==
    IF i > Len(entries) THEN [rules |-> rs, fault |-> ""]
    ELSE IF Malformed(entries[i]) THEN [rules |-> rs, fault |-> "KeyError"]
    ELSE LoadFrom(entries, i + 1, AddRule(rs, RuleOf(entries[i])))

LoadRules(rs, doc) ==
    IF ~doc.parse THEN [rules |-> rs, fault |-> "YAMLError"]
    ELSE LoadFrom(doc.entries, 1, rs)

(***************************************************************************)
(* generate_report: the summary, the grouping by rule, the flattened list, *)
(* and the files written to the output directory.                          *)
(***************************************************************************)
\* The mutation of CountSeverity that counts any other severity as INFO.
CountSeverityOrOther(vs, sev) ==
    Cardinality({i \in 1..Len(vs) :
                    \/ vs[i].severity = sev
                    \/ sev = "INFO" /\ vs[i].severity \notin {"ERROR", "WARNING"}})

\* len([v for v in self.violations if v.severity == sev])
CountSeverity(vs, sev) == Cardinality({i \in 1..Len(vs) : vs[i].severity = sev})

\* The mutation of TotalViolations that counts one too many.
TotalPlusOne(vs) == Len(vs) + 1

\* len(self.violations)
TotalViolations(vs) == Len(vs)

\* The position of key name in the dict groups, 0 when it is no key.
KeyPos(groups, name) ==
    IF \E p \in 1..Len(groups) : groups[p].key = name
    THEN CHOOSE p \in 1..Len(groups) : groups[p].key = name
    ELSE 0

RECURSIVE GroupLastOnly(_, _, _)
\* The mutation of GroupByRule that assigns [violation] to the key.
GroupLastOnly(vs, i, groups) ==
    IF i > Len(vs) THEN groups
    ELSE LET p == KeyPos(groups, vs[i].rule_name)
         IN  GroupLastOnly(vs, i + 1,
                 IF p = 0 THEN Append(groups, [key |-> vs[i].rule_name, items |-> <<vs[i]>>])
                 ELSE [groups EXCEPT ![p].items = <<vs[i]>>])

RECURSIVE GroupByRule(_, _, _)
\* The loop that fills violations_by_rule, from violation i on.  A dict
\* keeps its keys in insertion order: groups is the sequence of its items.
GroupByRule(vs, i, groups) ==
    IF i > Len(vs) THEN groups
    ELSE LET p == KeyPos(groups, vs[i].rule_name)
         IN  GroupByRule(vs, i + 1,
                 IF p = 0 THEN Append(groups, [key |-> vs[i].rule_name, items |-> <<vs[i]>>])
                 ELSE [groups EXCEPT ![p].items = Append(@, vs[i])])

\* The mutation of AffectedRows that reports at least one row.
AffectedRowsOrOne(v) == IF Len(v.row_indices) = 0 THEN 1 ELSE Len(v.row_indices)

\* len(v.row_indices)
AffectedRows(v) == Len(v.row_indices)

\* One entry of all_violations.
FlatViolation(v) ==
    [rule_name |-> v.rule_name, description |-> v.description,
     severity |-> v.severity, column |-> v.column, value |-> v.value,
     expected |-> v.expected, affected_rows |-> AffectedRows(v)]

NoSummary ==
    [total_violations |-> 0, errors |-> 0, warnings |-> 0, info |-> 0, timestamp |-> 0]

\* No report built yet.
NoReport ==
    [built |-> FALSE, summary |-> NoSummary, violations_by_rule |-> <<>>,
     all_violations |-> <<>>, csv_file |-> FALSE]

\* The report dict generate_report builds from self.violations at instant
\* clock; csv_file says whether the value returned names a CSV file.
BuildReport(vs, clock) ==
    [built |-> TRUE,
     summary |-> [total_violations |-> TotalViolations(vs),
                  errors   |-> CountSeverity(vs, "ERROR"),
                  warnings |-> CountSeverity(vs, "WARNING"),
                  info     |-> CountSeverity(vs, "INFO"),
                  timestamp |-> clock],
     violations_by_rule |-> GroupByRule(vs, 1, <<>>),
     all_violations |-> [i \in 1..Len(vs) |-> FlatViolation(vs[i])],
     csv_file |-> Len(vs) > 0]

\* An output directory without files.
\* json.dump(..., default=str) writes a DQViolation as the text str() gives.
StrOf(v) == [str |-> v]

NoDisk ==
    [json |-> [exists |-> FALSE, summary |-> NoSummary, violations_by_rule |-> <<>>,
               all_violations |-> <<>>],
     csv  |-> [exists |-> FALSE, rows |-> <<>>],
     png  |-> [exists |-> FALSE, drawn |-> 0]]

\* The output directory after generate_report: dq_report.json is written
\* at every call, dq_violations.csv only when all_violations is not empty,
\* dq_visualization.png only when self.violations is not empty.
WriteFiles(old, rep, vs) ==
    [json |-> [exists |-> TRUE, summary |-> rep.summary,
               violations_by_rule |->
                   [p \in 1..Len(rep.violations_by_rule) |->
                       [key |-> rep.violations_by_rule[p].key,
                        items |-> [k \in 1..Len(rep.violations_by_rule[p].items) |->
                                      StrOf(rep.violations_by_rule[p].items[k])]]],
               all_violations |-> rep.all_violations],
     csv  |-> IF rep.all_violations # <<>>
              THEN [exists |-> TRUE, rows |-> rep.all_violations]
              ELSE old.csv,
     png  |-> IF vs # <<>> THEN [exists |-> TRUE, drawn |-> Len(vs)] ELSE old.png]

(***************************************************************************)
(* The inputs: rules, rule documents and datasets.                         *)
(***************************************************************************)
WithColumns(cols) == [NoParams EXCEPT !.keys = {"columns"}, !.columns = cols]

RequiredRule ==
    DQRule("schema", "required columns", "required_columns",
           WithColumns(<<"received_at", "status", "processed_at">>), "ERROR")
OrderRule ==
    DQRule("order", "received before processed", "timestamp_order", NoParams, "ERROR")
FutureRule ==
    DQRule("future", "no future dates", "no_future_dates",
           WithColumns(<<"received_at", "processed_at">>), "WARNING")
AllowedRule ==
    DQRule("status", "valid status", "allowed_values",
           [NoParams EXCEPT !.keys = {"column", "allowed_values"}, !.column = "status",
                            !.allowed_values = <<Str(0)>>], "ERROR")
TypesRule ==
    DQRule("types", "column types", "data_types",
           [NoParams EXCEPT !.keys = {"columns"}, !.columns = <<"received_at", "status">>,
                            !.types = <<"datetime", "numeric">>], "INFO")
RangeRule ==
    DQRule("range", "status code range", "range_check",
           [NoParams EXCEPT !.keys = {"column", "min", "max"}, !.column = "status",
                            !.min = 2, !.max = 2], "WARNING")
UniqueRule ==
    DQRule("status", "unique status", "uniqueness", WithColumns(<<"status">>), "INFO")
CompleteRule ==
    DQRule("complete", "no missing values", "completeness",
           WithColumns(<<"status", "processed_at">>), "ERROR")
UnknownRule ==
    DQRule("later", "a kind of a later version", "no_such_kind", NoParams, "ERROR")

\* One rule of each kind, and one of no known kind.
RulePool ==
    <<RequiredRule, OrderRule, FutureRule, AllowedRule, TypesRule, RangeRule,
      UniqueRule, CompleteRule, UnknownRule>>

\* The rules the catalogs of the engine in use are made of.
EnginePool == <<RequiredRule, FutureRule, UniqueRule, UnknownRule>>

AllKeys == {"name", "description", "rule_type", "parameters", "severity"}

\* The entries a document may hold: two rules in full, one without
\* severity and one without name.
EntryPool ==
    {Entry(AllKeys, UniqueRule),
     Entry(AllKeys, UnknownRule),
     Entry(AllKeys \ {"severity"}, FutureRule),
     Entry(AllKeys \ {"name"}, RequiredRule)}

DocPool ==
    {[parse |-> TRUE, entries |-> es] : es \in SeqsUpTo(EntryPool, MaxDoc)}
    \cup {[parse |-> FALSE, entries |-> <<>>]}

\* The rows the engine's datasets are made of.
RowPool ==
    {[received_at |-> Str(2), processed_at |-> Str(1), status |-> Str(0)],
     [received_at |-> Str(1), processed_at |-> Str(2), status |-> NaN]}

FrameOfRows(cs, rows) ==
    Frame(Len(rows), [c \in cs |-> Column([i \in 1..Len(rows) |-> rows[i][c]])])

DataPool ==
    {FrameOfRows(cs, rows) : cs \in {ColNames, {"received_at"}},
                             rows \in SeqsUpTo(RowPool, MaxRows)}

(***************************************************************************)
(* The engine in use: construction, loading, appending, validating, the    *)
(* caller replacing the dataset, and the clock.                            *)
(***************************************************************************)
\* pre after a call whose contract does not speak of the state before it:
\* only the frame is kept.
NoPre(d) ==
    [rules |-> <<>>, held |-> 0, ret |-> <<>>, vday |-> 0,
     call |-> "none", outcome |-> "none", df |-> d]

\* No metrics request made yet.
NoMetrics == [endpoint |-> "none", outcome |-> "none"]

Init ==
    /\ rules = <<>>
    /\ violations = <<>>
    /\ df \in DataPool
    /\ now = 0
    /\ call = "init"
    /\ outcome = "ok"
    /\ ret = <<>>
    /\ vday = 0
    /\ log = <<>>
    /\ pre = NoPre(df)
    /\ report = NoReport
    /\ disk = NoDisk
    /\ requests = <<>>
    /\ specimens = <<>>
    /\ metrics = NoMetrics

\* A new run: the caller reads a file into df and builds DQRulesEngine().
NewEngine(d) ==
    /\ df' = d
    /\ rules' = <<>>
    /\ violations' = <<>>
    /\ call' = "init"
    /\ outcome' = "ok"
    /\ ret' = <<>>
    /\ vday' = 0
    /\ log' = <<>>
    /\ pre' = NoPre(d)
    /\ report' = NoReport
    /\ UNCHANGED <<now, disk, requests, specimens, metrics>>

\* The engine is gone once load_rules has called sys.exit(1).
Alive == outcome # "SystemExit"

\* engine.load_rules(file)
Load(doc) ==
    /\ Alive
    /\ Len(rules) + Len(doc.entries) <= MaxRules
    /\ LET r == LoadRules(rules, doc)
       IN  /\ rules' = r.rules
           /\ outcome' = IF r.fault = "" THEN "ok" ELSE "SystemExit"
           /\ log' = IF r.fault = ""
                     THEN log \o [i \in 1..Len(doc.entries) |-> RuleOf(doc.entries[i])]
                     ELSE log
    /\ call' = "load"
    /\ ret' = <<>>
    /\ vday' = 0
    /\ pre' = [NoPre(df) EXCEPT !.rules = rules]
    /\ UNCHANGED <<violations, df, now, report, disk, requests, specimens, metrics>>

\* engine.rules.append(rule), as the callers with custom rules do
AppendRule(rule) ==
    /\ Alive
    /\ Len(rules) < MaxRules
    /\ rules' = AddRule(rules, rule)
    /\ log' = Append(log, rule)
    /\ call' = "append"
    /\ outcome' = "ok"
    /\ ret' = <<>>
    /\ vday' = 0
    /\ pre' = NoPre(df)
    /\ UNCHANGED <<violations, df, now, report, disk, requests, specimens, metrics>>

\* engine.validate_data(df)
Validate ==
    /\ Alive
    /\ LET r == ValidateData(rules, violations, df, now)
       IN  /\ violations' = r.violations
           /\ df' = r.df
           /\ outcome' = IF r.fault = "" THEN "ok" ELSE r.fault
           /\ ret' = IF r.fault = "" THEN r.violations ELSE <<>>
    /\ call' = "validate"
    /\ vday' = Normalize(now)
    /\ pre' = [rules |-> <<>>, held |-> Len(violations), ret |-> ret, vday |-> vday,
               call |-> call, outcome |-> outcome, df |-> df]
    /\ UNCHANGED <<rules, now, log, report, disk, requests, specimens, metrics>>

\* The mutation of Report that empties self.violations once reported.
ReportAndClear ==
    /\ Alive
    /\ report' = BuildReport(violations, now)
    /\ disk' = WriteFiles(disk, report', violations)
    /\ violations' = <<>>
    /\ call' = "report"
    /\ outcome' = "ok"
    /\ pre' = [rules |-> <<>>, held |-> Len(violations), ret |-> ret, vday |-> vday,
               call |-> call, outcome |-> outcome, df |-> df]
    /\ UNCHANGED <<rules, df, now, ret, vday, log, requests, specimens, metrics>>

\* engine.generate_report()
Report ==
    /\ Alive
    /\ report' = BuildReport(violations, now)
    /\ disk' = WriteFiles(disk, report', violations)
    /\ call' = "report"
    /\ outcome' = "ok"
    /\ pre' = [rules |-> <<>>, held |-> Len(violations), ret |-> ret, vday |-> vday,
               call |-> call, outcome |-> outcome, df |-> df]
    /\ UNCHANGED <<rules, violations, df, now, ret, vday, log, requests, specimens, metrics>>

Tick ==
    /\ now < MaxNow
    /\ now' = now + 1
    /\ UNCHANGED <<rules, violations, df, call, outcome, ret, vday, log, pre, report, disk, requests, specimens, metrics>>

Next ==
    \/ \E d \in DataPool : NewEngine(d)
    \/ \E doc \in DocPool : Load(doc)
    \/ \E i \in 1..Len(EnginePool) : AppendRule(EnginePool[i])
    \/ Validate
    \/ Tick

Spec == Init /\ [][Next]_vars

(***************************************************************************)
(* One validator on one dataset: the catalog holds a single rule of        *)
(* RulePool or one of its variants, the dataset is any table of up to      *)
(* MaxRows rows and up to two of the columns, each column either text      *)
(* (dates, other text, empty fields) or numbers (and empty fields).        *)
(***************************************************************************)
TextCells   == {NaN, Str(0), Str(1), Str(2)}
NumberCells == {NaN, Num(1), Num(2), Num(3)}
EpochCells  == {NaN, Num(1)}

\* The columns of n fields a CSV file can hold under the name c: text, or
\* numbers (a status code; for a timestamp column an epoch number).
ColumnsOfLen(c, n) ==
    {Column(v) : v \in [1..n -> TextCells]
                    \cup [1..n -> IF c = "status" THEN NumberCells ELSE EpochCells]}

WideData ==
    UNION {{Frame(n, f) : f \in {g \in [cs -> ColumnsOfLen("status", n)] :
                                    \A c \in cs : g[c] \in ColumnsOfLen(c, n)}} :
           n \in 0..MaxRows, cs \in {S \in SUBSET ColNames : Cardinality(S) <= 2}}

\* Variants of the pool's rules: other columns, other parameters.
OrderRuleNamed ==
    DQRule("order", "status before received", "timestamp_order",
           [NoParams EXCEPT !.keys = {"received_column", "processed_column"},
                            !.received_column = "status",
                            !.processed_column = "received_at"], "WARNING")
RequiredTwoRule ==
    DQRule("schema", "two required columns", "required_columns",
           WithColumns(<<"status", "received_at">>), "WARNING")
UniquePairRule ==
    DQRule("pair", "unique pair", "uniqueness",
           WithColumns(<<"received_at", "status">>), "ERROR")
RangeMinRule ==
    DQRule("range", "status code at least 2", "range_check",
           [NoParams EXCEPT !.keys = {"column", "min"}, !.column = "status",
                            !.min = 2], "ERROR")
RangeMaxRule ==
    DQRule("range", "status code at most 2", "range_check",
           [NoParams EXCEPT !.keys = {"column", "max"}, !.column = "status",
                            !.max = 2], "INFO")
CompleteHalfRule ==
    DQRule("complete", "at most half missing", "completeness",
           [NoParams EXCEPT !.keys = {"columns", "threshold"},
                            !.columns = <<"status", "processed_at">>,
                            !.threshold = [num |-> 1, den |-> 2]], "WARNING")

WideRules ==
    RulePool \o <<OrderRuleNamed, RequiredTwoRule, UniquePairRule, RangeMinRule,
                  RangeMaxRule, CompleteHalfRule>>

InitV ==
    /\ \E i \in 1..Len(WideRules) : rules = <<WideRules[i]>> /\ log = rules
    /\ violations = <<>>
    /\ df \in WideData
    /\ now = 0
    /\ call = "init"
    /\ outcome = "ok"
    /\ ret = <<>>
    /\ vday = 0
    /\ pre = NoPre(df)
    /\ report = NoReport
    /\ disk = NoDisk
    /\ requests = <<>>
    /\ specimens = <<>>
    /\ metrics = NoMetrics

NextV == Validate

SpecV == InitV /\ [][NextV]_vars

(***************************************************************************)
(* SpecR: validate and report.  An engine with a catalog of up to          *)
(* MaxCatalog rules, among them two rules of one name, one of them of a    *)
(* severity of its own, validates a dataset and generates reports while    *)
(* the clock runs.                                                         *)
(***************************************************************************)
MaxCatalog == 3

CriticalRule ==
    DQRule("status", "status never missing", "completeness",
           WithColumns(<<"status">>), "CRITICAL")

ReportPool == {RequiredRule, FutureRule, UniqueRule, CriticalRule}

\* Datasets without the column processed_at, of no rows or of two rows.
ReportData ==
    {FrameOfRows({"received_at", "status"}, rows) :
         rows \in {r \in SeqsUpTo(RowPool, MaxRows) : Len(r) \in {0, 2}}}

InitR ==
    /\ rules \in SeqsUpTo(ReportPool, MaxCatalog)
    /\ log = rules
    /\ violations = <<>>
    /\ df \in ReportData
    /\ now = 0
    /\ call = "init"
    /\ outcome = "ok"
    /\ ret = <<>>
    /\ vday = 0
    /\ pre = NoPre(df)
    /\ report = NoReport
    /\ disk = NoDisk
    /\ requests = <<>>
    /\ specimens = <<>>
    /\ metrics = NoMetrics

NextR == Validate \/ Report \/ Tick

SpecR == InitR /\ [][NextR]_vars

(***************************************************************************)
(* SpecA: the validate-csv endpoint.  Every request reads its CSV upload,  *)
(* builds an engine, gets its rules from the uploaded rules file, from the *)
(* custom_rules form field or from sample_dq_rules.yaml, validates,        *)
(* generates the report into the directory dq_reports that all requests    *)
(* share, and answers.  Requests are served by any number of workers, so   *)
(* their steps interleave.                                                 *)
(***************************************************************************)
ReqIds == 1..MaxRequests

\* The uploads: a CSV of a header only, and one of two equal rows without
\* the column processed_at.
ApiData ==
    {FrameOfRows(ColNames, <<>>),
     FrameOfRows({"received_at", "status"},
                 <<[received_at |-> Str(1), processed_at |-> NaN, status |-> Str(0)],
                   [received_at |-> Str(1), processed_at |-> NaN, status |-> Str(0)]>>)}

\* What create_sample_rules puts into sample_dq_rules.yaml: well-formed
\* rules with all their keys.
SampleDoc ==
    [parse |-> TRUE, entries |-> <<Entry(AllKeys, RequiredRule), Entry(AllKeys, UniqueRule)>>]

NoDoc == [parse |-> TRUE, entries |-> <<>>]

\* A uniqueness rule on a column that one of the uploads lacks.
UniqueProcessedRule ==
    DQRule("processed", "unique processing instant", "uniqueness",
           WithColumns(<<"processed_at">>), "ERROR")

\* source is "file" (rules_file uploaded), "custom" (custom_rules given) or
\* "default"; doc is the document of the file or of the form field; sample
\* says whether sample_dq_rules.yaml exists.
ApiInput(d, source, doc, sample) ==
    [df |-> d, source |-> source, doc |-> doc, sample |-> sample]

ApiInputs ==
    {ApiInput(d, "file", doc, FALSE) :
         d \in ApiData,
         doc \in {[parse |-> TRUE, entries |-> <<Entry(AllKeys, UniqueRule)>>],
                  [parse |-> TRUE, entries |-> <<Entry(AllKeys \ {"name"}, RequiredRule)>>],
                  [parse |-> FALSE, entries |-> <<>>]}}
    \cup {ApiInput(d, "custom", doc, FALSE) :
         d \in ApiData,
         doc \in {[parse |-> TRUE, entries |-> <<Entry(AllKeys, RequiredRule),
                                                 Entry(AllKeys \ {"severity"}, CriticalRule)>>],
                  [parse |-> TRUE, entries |-> <<Entry(AllKeys \ {"name"}, RequiredRule)>>],
                  [parse |-> TRUE, entries |-> <<Entry(AllKeys, UniqueProcessedRule)>>]}}
    \cup {ApiInput(d, "default", NoDoc, sample) : d \in ApiData, sample \in BOOLEAN}

NoResponse ==
    [status |-> "none", rules_applied |-> 0, violations_count |-> 0,
     violations |-> <<>>, summary |-> NoSummary]

\* A request not yet received.
IdleRequest ==
    [pc |-> "idle", input |-> ApiInput(FrameOfRows(ColNames, <<>>), "default", NoDoc, FALSE),
     rules |-> <<>>, violations |-> <<>>, vday |-> 0, response |-> NoResponse]

\* raise HTTPException(status_code=400, ...)
Http400 == [NoResponse EXCEPT !.status = "http400"]

\* sys.exit(1) in load_rules: SystemExit is no Exception, the handler's
\* except clause lets it through and no response is built.
Exited == [NoResponse EXCEPT !.status = "SystemExit"]

\* The mutation of NewEngineFor whose rules list is shared by all engines:
\* it holds the rules of the requests in flight.
SharedEngineFor(reqs, r) ==
    [rules |-> IF \E q \in DOMAIN reqs : q # r /\ reqs[q].pc \in {"loaded", "validated"}
               THEN reqs[CHOOSE q \in DOMAIN reqs :
                             q # r /\ reqs[q].pc \in {"loaded", "validated"}].rules
               ELSE <<>>,
     violations |-> <<>>]

\* rules_engine = DQRulesEngine(): lists of its own, both empty.
NewEngineFor(reqs, r) == [rules |-> <<>>, violations |-> <<>>]

\* The rules of the request: load_rules on the uploaded file, the loop over
\* the custom rules, or load_rules on the sample file when it exists.
\* exits says whether a fault ends in sys.exit(1).
RulesOfInput(rs, inp) ==
    IF inp.source = "file"
    THEN LoadRules(rs, inp.doc) @@ [exits |-> TRUE]
    ELSE IF inp.source = "custom"
    THEN (IF ~inp.doc.parse THEN [rules |-> rs, fault |-> "JSONDecodeError"]
          ELSE LoadFrom(inp.doc.entries, 1, rs)) @@ [exits |-> FALSE]
    ELSE IF inp.sample THEN LoadRules(rs, SampleDoc) @@ [exits |-> TRUE]
    ELSE [rules |-> rs, fault |-> "", exits |-> FALSE]

\* One entry of the response's violations.
Presented(v) ==
    [rule_name |-> v.rule_name, description |-> v.description, severity |-> v.severity,
     row_indices |-> v.row_indices, column |-> v.column,
     value |-> IF v.value = None THEN None ELSE Fmt("str", <<>>, <<v.value>>, 0, 0),
     expected |-> IF v.expected = None THEN None ELSE Fmt("str", <<>>, <<v.expected>>, 0, 0)]

\* The dict the handler returns.
Success(rs, vs, rep) ==
    [status |-> "success", rules_applied |-> Len(rs), violations_count |-> Len(vs),
     violations |-> [k \in 1..Len(vs) |-> Presented(vs[k])], summary |-> rep.summary]

\* Lines 41-72: read_csv, DQRulesEngine(), and the rules.
Begin(r, inp) ==
    /\ requests[r].pc = "idle"
    /\ LET e == NewEngineFor(requests, r)
           l == RulesOfInput(e.rules, inp)
       IN  requests' = [requests EXCEPT ![r] =
               [pc |-> IF l.fault = "" THEN "loaded" ELSE IF l.exits THEN "exited" ELSE "failed",
                input |-> inp, rules |-> l.rules, violations |-> e.violations, vday |-> 0,
                response |-> IF l.fault = "" THEN NoResponse
                             ELSE IF l.exits THEN Exited ELSE Http400]]
    /\ UNCHANGED <<rules, violations, df, now, call, outcome, ret, vday, log, pre, report,
                   disk, specimens, metrics>>

\* Line 75: violations = rules_engine.validate_data(df)
RunValidate(r) ==
    /\ requests[r].pc = "loaded"
    /\ LET q == requests[r]
           v == ValidateData(q.rules, q.violations, q.input.df, now)
       IN  requests' = [requests EXCEPT ![r] =
               [q EXCEPT !.pc = IF v.fault = "" THEN "validated" ELSE "failed",
                         !.violations = v.violations,
                         !.vday = Normalize(now),
                         !.response = IF v.fault = "" THEN NoResponse ELSE Http400]]
    /\ UNCHANGED <<rules, violations, df, now, call, outcome, ret, vday, log, pre, report,
                   disk, specimens, metrics>>

\* Lines 78-99: generate_report into dq_reports, and the response.
Finish(r) ==
    /\ requests[r].pc = "validated"
    /\ LET q   == requests[r]
           rep == BuildReport(q.violations, now)
       IN  /\ disk' = WriteFiles(disk, rep, q.violations)
           /\ requests' = [requests EXCEPT ![r] =
                  [q EXCEPT !.pc = "done", !.response = Success(q.rules, q.violations, rep)]]
    /\ UNCHANGED <<rules, violations, df, now, call, outcome, ret, vday, log, pre, report,
                   specimens, metrics>>

InitA ==
    /\ rules = <<>>
    /\ violations = <<>>
    /\ df = FrameOfRows(ColNames, <<>>)
    /\ now = 0
    /\ call = "init"
    /\ outcome = "ok"
    /\ ret = <<>>
    /\ vday = 0
    /\ log = <<>>
    /\ pre = NoPre(df)
    /\ report = NoReport
    /\ disk = NoDisk
    /\ requests = [r \in ReqIds |-> IdleRequest]
    /\ specimens = <<>>
    /\ metrics = NoMetrics

NextA ==
    \/ \E r \in ReqIds : \E inp \in ApiInputs : Begin(r, inp)
    \/ \E r \in ReqIds : RunValidate(r)
    \/ \E r \in ReqIds : Finish(r)
    \/ Tick

SpecA == InitA /\ [][NextA]_vars

(***************************************************************************)
(* SpecM: the metrics endpoints over the specimens table.  Instants are    *)
(* minutes; a float is the fraction num/den.  get_specimens_df turns the   *)
(* table into a DataFrame, and each endpoint computes its metric from it.  *)
(***************************************************************************)
HourLen == 60
DayMinutes == 1440

\* settings.SLA_HOURS, and the limit of breach_df.head(20)
SLA_HOURS == 4
SampleLimit == 20

Specimen(assay, machine_id, status, error_code, received_at, processed_at) ==
    [id |-> 0, assay |-> assay, machine_id |-> machine_id, status |-> status,
     error_code |-> error_code, received_at |-> received_at, processed_at |-> processed_at]

\* The machines, as text cells.
M1 == Str(-1)
M2 == Str(-2)

\* The specimens the table is filled with: completed ones with a
\* turnaround at the SLA threshold, above it, negative and undefined, one
\* in error and one in process.
SpecimenPool ==
    {Specimen("CBC", M1, "COMPLETED", NaN, Ts(0), Ts(SLA_HOURS * 60)),
     Specimen("PCR", M2, "COMPLETED", NaN, Ts(0), Ts(SLA_HOURS * 60 + HourLen)),
     Specimen("CBC", M1, "COMPLETED", NaN, Ts(HourLen), Ts(0)),
     Specimen("PCR", M1, "COMPLETED", NaN, Ts(0), NaT),
     Specimen("CBC", M2, "ERROR", Str(0), Ts(0), NaT),
     Specimen("PCR", M2, "IN_PROCESS", NaN, Ts(0), NaT)}

SpecimenColumns ==
    {"id", "specimen_id", "assay", "machine_id", "operator_id", "status", "error_code",
     "received_at", "processed_at"}

\* get_specimens_df: pd.DataFrame() without any column when the table is
\* empty, else one row per specimen.
GetSpecimensDf(table) ==
    [columns |-> IF table = <<>> THEN {} ELSE SpecimenColumns, rows |-> table]

Frac(num, den) == [num |-> num, den |-> den]
Zero == Frac(0, 1)

\* The optional assay of a request: `if assay` holds of a non-empty string.
NoAssay == [given |-> FALSE, value |-> ""]
Assay(a) == [given |-> TRUE, value |-> a]

\* df[df['status'] == status]
WithStatus(rows, status) == SelectSeq(rows, LAMBDA s : s.status = status)

\* (processed_at - received_at).total_seconds() / 60: NaN when an instant
\* is missing.
TatMinutes(s) ==
    IF s.processed_at.k = "ts" /\ s.received_at.k = "ts"
    THEN Num(s.processed_at.v - s.received_at.v) ELSE NaN

\* The rows whose tat_minutes >= 0; a comparison with NaN is False.
ValidTat(rows) == SelectSeq(rows, LAMBDA s : TatMinutes(s).k = "num" /\ TatMinutes(s).v >= 0)

RECURSIVE Insert(_, _)
Insert(sorted, x) ==
    IF sorted = <<>> THEN <<x>>
    ELSE IF x <= Head(sorted) THEN <<x>> \o sorted
    ELSE <<Head(sorted)>> \o Insert(Tail(sorted), x)

RECURSIVE Sorted(_)
Sorted(xs) == IF xs = <<>> THEN <<>> ELSE Insert(Sorted(Tail(xs)), Head(xs))

\* Series.quantile(pct / 100), linear interpolation between the order
\* statistics around position (n - 1) * pct / 100.
Quantile(xs, pct) ==
    LET o    == Sorted(xs)
        pos  == (Len(xs) - 1) * pct
        lo   == pos \div 100 + 1
        part == pos % 100
    IN  Frac(100 * o[lo] + (IF part = 0 THEN 0 ELSE part * (o[lo + 1] - o[lo])), 100)

\* calculate_tat_metrics(df, assay)
CalculateTatMetrics(d, assay) ==
    IF "status" \notin d.columns THEN [outcome |-> "KeyError"]
    ELSE LET completed == WithStatus(d.rows, "COMPLETED")
             filtered  == IF assay.given /\ assay.value # ""
                          THEN SelectSeq(completed, LAMBDA s : s.assay = assay.value)
                          ELSE completed
             valid     == ValidTat(filtered)
             tats      == [i \in 1..Len(valid) |-> TatMinutes(valid[i]).v]
         IN  IF Len(valid) = 0
             THEN [outcome |-> "ok", p50 |-> Zero, p90 |-> Zero, p99 |-> Zero,
                   assay |-> assay, total_specimens |-> 0]
             ELSE [outcome |-> "ok", p50 |-> Quantile(tats, 50), p90 |-> Quantile(tats, 90),
                   p99 |-> Quantile(tats, 99), assay |-> assay,
                   total_specimens |-> Len(valid)]

\* Series.dt.floor('H') or .dt.floor('D'); NaT stays NaT.
FloorTo(cell, grain) ==
    IF cell.k # "ts" THEN NaT
    ELSE IF grain = "hour" THEN Ts((cell.v \div HourLen) * HourLen)
    ELSE Ts((cell.v \div DayMinutes) * DayMinutes)

\* calculate_throughput(df, grain): groupby drops the rows whose key is
\* NaT and orders the groups by key.
CalculateThroughput(d, grain) ==
    IF "status" \notin d.columns THEN [outcome |-> "KeyError"]
    ELSE LET completed == WithStatus(d.rows, "COMPLETED")
             keys      == {FloorTo(completed[i].processed_at, grain).v :
                             i \in {j \in 1..Len(completed) : completed[j].processed_at.k = "ts"}}
             order     == Sorted(CHOOSE q \in [1..Cardinality(keys) -> keys] :
                                    \A a, b \in 1..Cardinality(keys) : a # b => q[a] # q[b])
         IN  IF Len(completed) = 0 THEN [outcome |-> "ok", data |-> <<>>, grain |-> grain]
             ELSE [outcome |-> "ok", grain |-> grain,
                   data |-> [p \in 1..Len(order) |->
                       [timestamp |-> Ts(order[p]),
                        count |-> Cardinality({i \in 1..Len(completed) :
                                     FloorTo(completed[i].processed_at, grain) = Ts(order[p])})]]]

\* error_df.groupby(field).size() as ErrorRate entries, one per value of
\* the field; the entries of missing values are left out.
ErrorRates(errors, field, total) ==
    {[category |-> field, value |-> v,
      count |-> Cardinality({i \in 1..Len(errors) : errors[i][field] = v}),
      rate |-> Frac(Cardinality({i \in 1..Len(errors) : errors[i][field] = v}), total)] :
         v \in {errors[i][field] : i \in 1..Len(errors)} \ {NaN}}

\* calculate_error_metrics(df)
CalculateErrorMetrics(d) ==
    IF "status" \notin d.columns THEN [outcome |-> "KeyError"]
    ELSE LET errors == WithStatus(d.rows, "ERROR")
             total  == Len(d.rows)
         IN  IF total = 0
             THEN [outcome |-> "ok", by_machine |-> {}, by_error_code |-> {},
                   total_errors |-> 0, total_specimens |-> 0, overall_error_rate |-> Zero]
             ELSE [outcome |-> "ok",
                   by_machine |-> ErrorRates(errors, "machine_id", total),
                   by_error_code |-> ErrorRates(errors, "error_code", total),
                   total_errors |-> Len(errors), total_specimens |-> total,
                   overall_error_rate |-> Frac(Len(errors), total)]

SLABreach(s) ==
    [specimen_id |-> s.id, assay |-> s.assay, machine_id |-> s.machine_id,
     turnaround_time_minutes |-> TatMinutes(s).v,
     received_at |-> s.received_at, processed_at |-> s.processed_at]

\* DataFrame.head(n)
FirstRows(rows, n) == SubSeq(rows, 1, IF Len(rows) < n THEN Len(rows) ELSE n)

\* calculate_sla_metrics(df)
CalculateSlaMetrics(d) ==
    IF "status" \notin d.columns THEN [outcome |-> "KeyError"]
    ELSE LET completed == WithStatus(d.rows, "COMPLETED")
             valid     == ValidTat(completed)
             breaches  == SelectSeq(valid, LAMBDA s : TatMinutes(s).v > SLA_HOURS * 60)
             sample    == FirstRows(breaches, SampleLimit)
         IN  IF Len(completed) = 0
             THEN [outcome |-> "ok", breach_count |-> 0, total_completed |-> 0,
                   breach_rate |-> Zero, sample_breaches |-> <<>>]
             ELSE [outcome |-> "ok", breach_count |-> Len(breaches),
                   total_completed |-> Len(valid),
                   breach_rate |-> IF Len(valid) > 0 THEN Frac(Len(breaches), Len(valid))
                                   ELSE Zero,
                   sample_breaches |-> [i \in 1..Len(sample) |-> SLABreach(sample[i])]]

\* A specimen enters the table; id is the autoincremented key.
AddSpecimen(s) ==
    /\ Len(specimens) < MaxSpecimens
    /\ specimens' = Append(specimens, [s EXCEPT !.id = Len(specimens) + 1])
    /\ UNCHANGED <<rules, violations, df, now, call, outcome, ret, vday, log, pre, report,
                   disk, requests, metrics>>

\* What a metrics endpoint leaves: its name, its argument, the table it
\* read and the result of the calculation.
Answer(endpoint, arg, result) ==
    [endpoint |-> endpoint, arg |-> arg, table |-> specimens] @@ result

\* GET /metrics/tat
GetTatMetrics(assay) ==
    /\ metrics' = Answer("tat", assay, CalculateTatMetrics(GetSpecimensDf(specimens), assay))
    /\ UNCHANGED <<rules, violations, df, now, call, outcome, ret, vday, log, pre, report,
                   disk, requests, specimens>>

\* GET /metrics/throughput
GetThroughputMetrics(grain) ==
    /\ metrics' = Answer("throughput", grain,
                         CalculateThroughput(GetSpecimensDf(specimens), grain))
    /\ UNCHANGED <<rules, violations, df, now, call, outcome, ret, vday, log, pre, report,
                   disk, requests, specimens>>

\* GET /metrics/errors
GetErrorMetrics ==
    /\ metrics' = Answer("errors", "", CalculateErrorMetrics(GetSpecimensDf(specimens)))
    /\ UNCHANGED <<rules, violations, df, now, call, outcome, ret, vday, log, pre, report,
                   disk, requests, specimens>>

\* GET /metrics/sla
GetSlaMetrics ==
    /\ metrics' = Answer("sla", "", CalculateSlaMetrics(GetSpecimensDf(specimens)))
    /\ UNCHANGED <<rules, violations, df, now, call, outcome, ret, vday, log, pre, report,
                   disk, requests, specimens>>

AssayArgs == {NoAssay, Assay(""), Assay("CBC"), Assay("PCR")}

InitM ==
    /\ rules = <<>>
    /\ violations = <<>>
    /\ df = FrameOfRows(ColNames, <<>>)
    /\ now = 0
    /\ call = "init"
    /\ outcome = "ok"
    /\ ret = <<>>
    /\ vday = 0
    /\ log = <<>>
    /\ pre = NoPre(df)
    /\ report = NoReport
    /\ disk = NoDisk
    /\ requests = <<>>
    /\ specimens = <<>>
    /\ metrics = NoMetrics

NextM ==
    \/ \E s \in SpecimenPool : AddSpecimen(s)
    \/ \E assay \in AssayArgs : GetTatMetrics(assay)
    \/ \E grain \in {"hour", "day"} : GetThroughputMetrics(grain)
    \/ GetErrorMetrics
    \/ GetSlaMetrics

SpecM == InitM /\ [][NextM]_vars

(***************************************************************************)
(* Properties.                                                             *)
(***************************************************************************)
RECURSIVE Flatten(_)
Flatten(ss) == IF Len(ss) = 0 THEN <<>> ELSE Head(ss) \o Flatten(Tail(ss))

\* What each rule of rs yields on d, rule by rule.
Blocks(rs, d, clock) == [i \in 1..Len(rs) |-> CheckRule(d, rs[i], clock).out]

Count(seq, v) == Cardinality({i \in 1..Len(seq) : seq[i] = v})

RECURSIVE Offset(_, _)
\* The number of violations of the blocks before block i.
Offset(B, i) == IF i <= 1 THEN 0 ELSE Offset(B, i - 1) + Len(B[i - 1])

KnownKinds ==
    {"required_columns", "timestamp_order", "no_future_dates", "allowed_values",
     "data_types", "range_check", "uniqueness", "completeness"}

IsKnownKind(rule) == rule.rule_type \in KnownKinds

Validated == call = "validate"
Returned  == call = "validate" /\ outcome = "ok"

\* C1: validation runs are not cumulative.  After validate_data returns, the
\* list the engine holds is the list it returned and holds exactly the
\* violations the current catalog yields on the dataset, each as often as
\* the catalog yields it; after a run that raised, the list holds nothing
\* but violations of that run.
C1_NotCumulative ==
    Validated =>
        LET fresh == Flatten(Blocks(rules, df, vday))
        IN  /\ outcome = "ok" =>
                /\ ret = violations
                /\ Len(violations) = Len(fresh)
                /\ \A i \in 1..Len(fresh) :
                       Count(violations, fresh[i]) = Count(fresh, fresh[i])
            /\ outcome # "ok" =>
                \A i \in 1..Len(violations) :
                    Count(violations, violations[i]) <= Count(fresh, violations[i])

\* A run that returned fewer violations than the engine held from the run
\* before.
C1_Witness == Returned /\ Len(ret) > 0 /\ Len(ret) < pre.held

\* C2 as stated: two successive validate_data calls on the same catalog and
\* dataset return identical lists.
C2_Idempotent ==
    (Returned /\ pre.call = "validate" /\ pre.outcome = "ok") => ret = pre.ret

\* C2 as amended: two successive validate_data calls on the same catalog and
\* dataset, made on the same calendar day, return identical lists.
C2_IdempotentSameDay ==
    (Returned /\ pre.call = "validate" /\ pre.outcome = "ok" /\ pre.vday = vday)
        => ret = pre.ret

\* The second of two runs of one day, returning violations of a
\* no_future_dates rule.
C2_Witness ==
    /\ Returned /\ pre.call = "validate" /\ pre.outcome = "ok" /\ pre.vday = vday
    /\ \E i \in 1..Len(ret) : ret[i].rule_name = "future"

\* C3: the violations of each rule form one block, and the blocks stand in
\* catalog order: block i starts right after the blocks of the rules
\* before rule i.
C3_OrderPreserved ==
    Returned =>
        LET B == Blocks(rules, df, vday)
        IN  /\ Len(ret) = Offset(B, Len(rules) + 1)
            /\ \A i \in 1..Len(rules) : \A k \in 1..Len(B[i]) :
                   ret[Offset(B, i) + k] = B[i][k]

\* Two rules of different kinds and severities, the first with a block of
\* two violations, the second with a block of one.
C3_Witness ==
    /\ Returned /\ Len(rules) = 2
    /\ rules[1].rule_type # rules[2].rule_type
    /\ rules[1].severity # rules[2].severity
    /\ Len(CheckRule(df, rules[1], vday).out) = 2
    /\ Len(CheckRule(df, rules[2], vday).out) = 1

\* C4: a rule of no known kind yields no violation and no error, and the
\* run ends as it does on the catalog without such rules, with the same
\* violations.
C4_SoftSkip ==
    Validated =>
        LET known == SelectSeq(rules, IsKnownKind)
            r     == ValidateData(known, <<>>, df, vday)
        IN  /\ outcome = (IF r.fault = "" THEN "ok" ELSE r.fault)
            /\ violations = r.violations
            /\ \A i \in 1..Len(rules) :
                   ~IsKnownKind(rules[i]) =>
                       LET c == CheckRule(df, rules[i], vday)
                       IN  c.fault = "" /\ c.out = <<>>

\* A run that returned violations on a catalog that holds a rule of no
\* known kind before a rule that yields violations.
C4_Witness ==
    /\ Returned /\ Len(rules) = 2
    /\ ~IsKnownKind(rules[1])
    /\ Len(ret) > 0

\* The columns the parameters of a rule refer to.
ReferencedCols(rule) ==
    CASE rule.rule_type = "timestamp_order" ->
            {Param(rule, "received_column", "received_at"),
             Param(rule, "processed_column", "processed_at")}
      [] rule.rule_type = "no_future_dates" ->
            {c \in ColNames : IsIn(c, Param(rule, "columns", <<"received_at", "processed_at">>))}
      [] rule.rule_type \in {"allowed_values", "range_check"} ->
            {c \in ColNames : c = Param(rule, "column", "")}
      [] OTHER -> {c \in ColNames : IsIn(c, Param(rule, "columns", <<>>))}

\* The rule cannot apply, in the narrowest reading: the dataset has no rows,
\* or none of the columns the rule refers to is present.
Inapplicable(d, rule) ==
    \/ d.n = 0
    \/ ReferencedCols(rule) # {} /\ \A c \in ReferencedCols(rule) : ~HasCol(d, c)

\* C5: a rule of a kind other than required_columns that cannot apply
\* yields no violation and validate_data completes.
C5_InapplicableNeverRaises ==
    (/\ Validated /\ Len(rules) = 1
     /\ IsKnownKind(rules[1]) /\ rules[1].rule_type # "required_columns"
     /\ Inapplicable(df, rules[1]))
        => outcome = "ok" /\ violations = <<>>

\* C6: a load that fails leaves the catalog as it was before the call.
C6_LoadAtomic ==
    (call = "load" /\ outcome = "SystemExit") => rules = pre.rules

\* C7: the catalog is the rules the caller added, by documents loaded and
\* by appending, in the order they were added; a load keeps the rules the
\* catalog held in front.
C7_LoadCumulative ==
    Alive =>
        /\ rules = log
        /\ call = "load" =>
               /\ Len(pre.rules) <= Len(rules)
               /\ SubSeq(rules, 1, Len(pre.rules)) = pre.rules

\* A load that added a rule behind the rules the catalog held.
C7_Witness ==
    /\ call = "load" /\ outcome = "ok"
    /\ Len(pre.rules) > 0
    /\ Len(rules) > Len(pre.rules)

\* C8: validate_data leaves the caller's dataset as it found it.
C8_DatasetUnchanged == Validated => df = pre.df

\* A timestamp rule that parsed a text column with a date in it and found
\* a violation.
C8_Witness ==
    /\ Returned /\ Len(rules) = 1 /\ Len(ret) > 0
    /\ rules[1].rule_type \in {"timestamp_order", "no_future_dates"}
    /\ HasCol(df, "received_at")
    /\ df.data["received_at"].dtype = "object"
    /\ \E i \in 1..df.n : df.data["received_at"].vals[i] = Str(2)

\* The listed columns the dataset lacks, in the order of the list.
MissingOf(rule) ==
    LET Absent(c) == ~HasCol(df, c)
    IN  SelectSeq(Param(rule, "columns", <<>>), Absent)

SchemaColumn == Fmt("column", <<"schema">>, <<>>, 0, 0)

\* C9 as stated: with a listed column absent, one violation with no rows,
\* column "schema" and the list of the missing names as value; none
\* otherwise.
C9_RequiredColumnsValue ==
    (Validated /\ Len(rules) = 1 /\ rules[1].rule_type = "required_columns") =>
        LET missing == MissingOf(rules[1])
        IN  /\ outcome = "ok"
            /\ IF missing = <<>> THEN ret = <<>>
               ELSE /\ Len(ret) = 1
                    /\ ret[1].row_indices = <<>>
                    /\ ret[1].column = SchemaColumn
                    /\ ret[1].value = Fmt("list", missing, <<>>, 0, 0)

\* C9 as amended: with a listed column absent, one violation with no rows,
\* column "schema", no value, and a description that names the missing
\* columns in the order of the list; none otherwise.
C9_RequiredColumns ==
    (Validated /\ Len(rules) = 1 /\ rules[1].rule_type = "required_columns") =>
        LET missing == MissingOf(rules[1])
        IN  /\ outcome = "ok"
            /\ IF missing = <<>> THEN ret = <<>>
               ELSE /\ Len(ret) = 1
                    /\ ret[1].row_indices = <<>>
                    /\ ret[1].column = SchemaColumn
                    /\ ret[1].value = None
                    /\ ret[1].description =
                           Fmt("Missing required columns", missing, <<>>, 0, 0)

\* A dataset that lacks the first and the last of the three listed
\* columns.
C9_Witness ==
    /\ Returned /\ rules = <<RequiredRule>>
    /\ DOMAIN df.data = {"status"}
    /\ Len(ret) = 1

\* The cell is a date or a number, which pandas reads as an instant.
ParsesToTimestamp(c) == (c.k = "str" /\ c.v >= 1) \/ c.k = "num"

\* C10: timestamp_order yields at most one violation, and its rows are
\* the rows where both cells parse to a timestamp and received >=
\* processed; none when no row is such.
C10_TimestampOrder ==
    (Validated /\ Len(rules) = 1 /\ rules[1].rule_type = "timestamp_order") =>
        LET rc == Param(rules[1], "received_column", "received_at")
            pc == Param(rules[1], "processed_column", "processed_at")
        IN  /\ outcome = "ok"
            /\ IF HasCol(df, rc) /\ HasCol(df, pc)
               THEN LET R == df.data[rc].vals
                        P == df.data[pc].vals
                        late == [i \in 1..df.n |->
                                    /\ ParsesToTimestamp(R[i])
                                    /\ ParsesToTimestamp(P[i])
                                    /\ R[i].v >= P[i].v]
                        rows == SelectIdx(late, 1, df.n)
                    IN  IF rows = <<>> THEN ret = <<>>
                        ELSE Len(ret) = 1 /\ ret[1].row_indices = rows
               ELSE ret = <<>>

\* The rows of column col whose cell parses to a timestamp later than t.
LateRows(d, col, t) ==
    LET vals == d.data[col].vals
        late == [i \in 1..d.n |-> ParsesToTimestamp(vals[i]) /\ vals[i].v > t]
    IN  SelectIdx(late, 1, d.n)

RECURSIVE FutureBy(_, _, _, _)
\* For the listed columns from entry i on that are present and hold a row
\* later than t: the column and those rows.
FutureBy(d, cols, t, i) ==
    IF i > Len(cols) THEN <<>>
    ELSE (IF HasCol(d, cols[i]) /\ LateRows(d, cols[i], t) # <<>>
          THEN <<[column |-> Fmt("column", <<cols[i]>>, <<>>, 0, 0),
                  row_indices |-> LateRows(d, cols[i], t)]>>
          ELSE <<>>)
         \o FutureBy(d, cols, t, i + 1)

\* The column and the rows of each violation of a list.
ColumnAndRows(vs) ==
    [k \in 1..Len(vs) |-> [column |-> vs[k].column, row_indices |-> vs[k].row_indices]]

\* C11: a validate_data call at instant now on a catalog of one
\* no_future_dates rule returns, per listed column present that has a row
\* whose timestamp is later than now, one violation listing exactly those
\* rows, in the order of the list, and nothing else; a timestamp at or
\* before now is never flagged.
C11_NoFutureDates ==
    [][(/\ call' = "validate" /\ now' = now
        /\ Len(rules') = 1 /\ rules'[1].rule_type = "no_future_dates")
         => /\ outcome' = "ok"
            /\ ColumnAndRows(ret') =
                   FutureBy(df', Param(rules'[1], "columns",
                                       <<"received_at", "processed_at">>), now', 1)]_vars

\* The one rule of a catalog of one rule of the given kind, validated.
Single(kind) == Validated /\ Len(rules) = 1 /\ rules[1].rule_type = kind

\* The cell is none of the allowed values.
NonMember(c, allowed) == \A j \in 1..Len(allowed) : allowed[j] # c

\* The cells of seq that no earlier position of seq holds, in order.
FirstOccurrences(seq) ==
    LET first == [i \in 1..Len(seq) |-> \A j \in 1..(i - 1) : seq[j] # seq[i]]
        keep  == SelectIdx(first, 1, Len(seq))
    IN  [k \in 1..Len(keep) |-> seq[keep[k] + 1]]

\* C12: allowed_values on a column that exists yields one violation iff a
\* row holds a non-member; its rows are exactly the rows holding a
\* non-member, its value the distinct non-members in first-occurrence
\* order, its expected the allowed values.
C12_AllowedValues ==
    (Single("allowed_values") /\ HasCol(df, Param(rules[1], "column", ""))) =>
        LET allowed == Param(rules[1], "allowed_values", <<>>)
            vals    == df.data[Param(rules[1], "column", "")].vals
            bad     == [i \in 1..df.n |-> NonMember(vals[i], allowed)]
            rows    == SelectIdx(bad, 1, df.n)
            values  == FirstOccurrences([k \in 1..Len(rows) |-> vals[rows[k] + 1]])
        IN  /\ outcome = "ok"
            /\ IF rows = <<>> THEN ret = <<>>
               ELSE /\ Len(ret) = 1
                    /\ ret[1].row_indices = rows
                    /\ ret[1].value = Fmt("list", <<>>, values, 0, 0)
                    /\ ret[1].expected = Fmt("list", <<>>, allowed, 0, 0)

\* Two rows that hold the same non-member, reported once as value.
C12_Witness ==
    /\ Single("allowed_values") /\ Len(ret) = 1
    /\ Len(ret[1].row_indices) = 2
    /\ Len(ret[1].value.items) = 1

\* Every value of the column converts to the declared type: a missing
\* value and a number convert to either, a date string to datetime only.
Convertible(col, type) ==
    \A i \in 1..Len(col.vals) :
        \/ col.vals[i].k \in {"nan", "num"}
        \/ type = "datetime" /\ col.vals[i].k = "str" /\ col.vals[i].v >= 1

RECURSIVE TypeFailures(_, _, _, _)
\* For the entries from i on whose column is present and does not convert
\* to its declared type: the column, every row, and the type.
TypeFailures(d, cols, types, i) ==
    IF i > Len(cols) THEN <<>>
    ELSE (IF /\ types[i] \in {"datetime", "numeric"}
             /\ HasCol(d, cols[i])
             /\ ~Convertible(d.data[cols[i]], types[i])
          THEN <<[column |-> Fmt("column", <<cols[i]>>, <<>>, 0, 0),
                  row_indices |-> [r \in 1..d.n |-> r - 1],
                  expected |-> Fmt(types[i], <<>>, <<>>, 0, 0)]>>
          ELSE <<>>)
         \o TypeFailures(d, cols, types, i + 1)

\* C13: data_types yields, for each entry of type datetime or numeric whose
\* column is present, one violation iff the column as a whole does not
\* convert to the declared type, with every row of the dataset as rows and
\* the declared type as expected; a column that converts yields none.
C13_DataTypes ==
    Single("data_types") =>
        /\ outcome = "ok"
        /\ [k \in 1..Len(ret) |->
               [column |-> ret[k].column, row_indices |-> ret[k].row_indices,
                expected |-> ret[k].expected]]
           = TypeFailures(df, rules[1].parameters.columns, rules[1].parameters.types, 1)

\* C14: range_check on a numeric column yields one violation for the rows
\* below min, when min is given and such rows exist, then a separate one
\* for the rows above max, when max is given and such rows exist; each
\* lists exactly its rows; a value equal to a bound is compliant.
C14_RangeCheck ==
    (/\ Single("range_check") /\ HasCol(df, Param(rules[1], "column", ""))
     /\ \A i \in 1..df.n :
            df.data[Param(rules[1], "column", "")].vals[i].k \in {"num", "nan"})
        =>
        LET p     == rules[1].parameters
            vals  == df.data[p.column].vals
            under == SelectIdx([i \in 1..df.n |-> vals[i].k = "num" /\ ~(vals[i].v >= p.min)],
                               1, df.n)
            over  == SelectIdx([i \in 1..df.n |-> vals[i].k = "num" /\ ~(vals[i].v <= p.max)],
                               1, df.n)
        IN  /\ outcome = "ok"
            /\ [k \in 1..Len(ret) |-> ret[k].row_indices]
               = (IF "min" \in p.keys /\ under # <<>> THEN <<under>> ELSE <<>>)
                 \o (IF "max" \in p.keys /\ over # <<>> THEN <<over>> ELSE <<>>)

\* A value above max in the first row and one below min in the second:
\* the violation of the rows below min comes first.
C14_Witness ==
    /\ Single("range_check") /\ Len(ret) = 2
    /\ ret[1].row_indices = <<1>> /\ ret[1].value.tag = "<"
    /\ ret[2].row_indices = <<0>> /\ ret[2].value.tag = ">"

\* C15: uniqueness yields one violation iff two rows share their values
\* over the listed columns; its rows are all rows that share their values
\* with another row, first occurrences included, ascending; otherwise it
\* yields nothing.
C15_Uniqueness ==
    (Single("uniqueness") /\ Param(rules[1], "columns", <<>>) # <<>>) =>
        LET cols == rules[1].parameters.columns
            Same(i, k) == \A j \in 1..Len(cols) :
                              /\ HasCol(df, cols[j])
                              /\ df.data[cols[j]].vals[i] = df.data[cols[j]].vals[k]
            grouped == {i \in 1..df.n : \E k \in 1..df.n : k # i /\ Same(i, k)}
            listed  == violations[1].row_indices
        IN  IF grouped = {} THEN violations = <<>>
            ELSE /\ outcome = "ok"
                 /\ Len(violations) = 1
                 /\ {listed[m] + 1 : m \in 1..Len(listed)} = grouped
                 /\ Len(listed) = Cardinality(grouped)
                 /\ \A m \in 1..(Len(listed) - 1) : listed[m] < listed[m + 1]

\* Two rows with the same values over two columns: both are listed.
C15_Witness ==
    /\ Single("uniqueness") /\ Len(rules[1].parameters.columns) = 2
    /\ Len(ret) = 1
    /\ ret[1].row_indices = <<0, 1>>

RECURSIVE Incomplete(_, _, _, _)
\* For the listed columns from entry i on that are present and whose
\* missing values are more than the fraction t of the rows: the column and
\* the rows whose value is missing.
Incomplete(d, cols, t, i) ==
    IF i > Len(cols) THEN <<>>
    ELSE (IF HasCol(d, cols[i])
          THEN LET vals == d.data[cols[i]].vals
                   gone == {r \in 1..d.n : vals[r].k = "nan"}
               IN  IF d.n > 0 /\ ~(Cardinality(gone) * t.den <= t.num * d.n)
                   THEN <<[column |-> Fmt("column", <<cols[i]>>, <<>>, 0, 0),
                           row_indices |-> SelectIdx([r \in 1..d.n |-> r \in gone], 1, d.n)]>>
                   ELSE <<>>
          ELSE <<>>)
         \o Incomplete(d, cols, t, i + 1)

\* C16: completeness yields, for each listed column present, a violation
\* iff the missing values are strictly more than the fraction threshold
\* (0 when none is given) of the rows; its rows are exactly the rows whose
\* value is missing; the violations stand in the order of the list.
C16_Completeness ==
    Single("completeness") =>
        /\ outcome = "ok"
        /\ ColumnAndRows(ret) =
               Incomplete(df, Param(rules[1], "columns", <<>>),
                          IF "threshold" \in rules[1].parameters.keys
                          THEN rules[1].parameters.threshold
                          ELSE [num |-> 0, den |-> 1], 1)

\* With threshold one half: a column with every value missing is reported
\* and a column with half its values missing is not.
C16_Witness ==
    /\ Returned /\ rules = <<CompleteHalfRule>> /\ df.n = 2
    /\ HasCol(df, "status") /\ HasCol(df, "processed_at")
    /\ df.data["status"].vals = <<NaN, Num(1)>>
    /\ df.data["processed_at"].vals = <<NaN, NaN>>
    /\ Len(ret) = 1

\* generate_report has returned.
Reported == call = "report"

\* C17: total_violations is the length of the violation list; errors,
\* warnings and info are the numbers of violations of severity ERROR,
\* WARNING and INFO; their sum is at most the total, and equal to it iff no
\* violation has another severity.
C17_ReportCounts ==
    Reported =>
        LET s == report.summary
            IsError(v)   == v.severity = "ERROR"
            IsWarning(v) == v.severity = "WARNING"
            IsInfo(v)    == v.severity = "INFO"
            IsOther(v)   == v.severity \notin {"ERROR", "WARNING", "INFO"}
        IN  /\ s.total_violations = Len(violations)
            /\ s.errors   = Len(SelectSeq(violations, IsError))
            /\ s.warnings = Len(SelectSeq(violations, IsWarning))
            /\ s.info     = Len(SelectSeq(violations, IsInfo))
            /\ s.errors + s.warnings + s.info <= s.total_violations
            /\ (s.errors + s.warnings + s.info = s.total_violations)
                   <=> (SelectSeq(violations, IsOther) = <<>>)

\* A report of violations of severity ERROR, WARNING and CRITICAL: the
\* three counts sum to less than the total.
C17_Witness ==
    /\ Reported
    /\ report.summary.errors >= 1 /\ report.summary.warnings >= 1
    /\ report.summary.errors + report.summary.warnings + report.summary.info
           < report.summary.total_violations

\* C18: the keys of violations_by_rule are the distinct rule names of the
\* violation list, in first-appearance order; each key maps to the
\* violations of that name in their order in the list; the group sizes
\* sum to total_violations.
C18_ReportGrouping ==
    Reported =>
        LET g == report.violations_by_rule
        IN  /\ [p \in 1..Len(g) |-> g[p].key]
               = FirstOccurrences([i \in 1..Len(violations) |-> violations[i].rule_name])
            /\ \A p \in 1..Len(g) :
                   LET Named(v) == v.rule_name = g[p].key
                   IN  g[p].items = SelectSeq(violations, Named)
            /\ Len(Flatten([p \in 1..Len(g) |-> g[p].items]))
               = report.summary.total_violations

\* Two rules of one name with a rule of another name between them: their
\* violations fall under one key.
C18_Witness ==
    /\ Reported /\ Len(violations) = 3
    /\ violations[1].rule_name = violations[3].rule_name
    /\ violations[1].rule_name # violations[2].rule_name
    /\ violations[1].severity # violations[3].severity
    /\ Len(report.violations_by_rule) = 2

\* C19: all_violations has one entry per violation, in the order of the
\* violation list, with rule_name, description, severity, column, value
\* and expected unchanged and affected_rows = len(row_indices) in place of
\* row_indices.
C19_ReportFlattening ==
    Reported =>
        /\ Len(report.all_violations) = Len(violations)
        /\ \A i \in 1..Len(violations) :
               LET e == report.all_violations[i]
                   v == violations[i]
               IN  /\ DOMAIN e = {"rule_name", "description", "severity", "column",
                                  "value", "expected", "affected_rows"}
                   /\ e.rule_name = v.rule_name /\ e.description = v.description
                   /\ e.severity = v.severity /\ e.column = v.column
                   /\ e.value = v.value /\ e.expected = v.expected
                   /\ e.affected_rows = Len(v.row_indices)

\* A report with a schema violation, of 0 affected rows, and a violation
\* of two rows.
C19_Witness ==
    /\ Reported /\ Len(violations) >= 2
    /\ violations[1].column = SchemaColumn
    /\ report.all_violations[1].affected_rows = 0
    /\ report.all_violations[2].affected_rows = 2

\* C20: with an empty violation list generate_report completes and yields
\* total_violations = errors = warnings = info = 0, violations_by_rule = {}
\* and all_violations = [].
C20_EmptyReport ==
    (Reported /\ violations = <<>>) =>
        /\ outcome = "ok"
        /\ report.summary.total_violations = 0
        /\ report.summary.errors = 0 /\ report.summary.warnings = 0
        /\ report.summary.info = 0
        /\ report.violations_by_rule = <<>>
        /\ report.all_violations = <<>>

\* A report generated after a run in which every check of a catalog of
\* rules passed.
C20_Witness ==
    /\ Reported /\ pre.call = "validate" /\ pre.outcome = "ok"
    /\ Len(rules) >= 1 /\ violations = <<>>
    /\ report.built

\* What a report says of the violation list: the counts, the groups and
\* the flattened list.
Content(rep) ==
    [total_violations |-> rep.summary.total_violations,
     errors |-> rep.summary.errors, warnings |-> rep.summary.warnings,
     info |-> rep.summary.info,
     violations_by_rule |-> rep.violations_by_rule,
     all_violations |-> rep.all_violations]

\* C21 as stated: a generate_report call changes nothing outside its
\* return value: the rule list and the violation list are unchanged and no
\* file is created or modified; a second call on the same list yields the
\* same counts, groups and flattened list.
C21_ReportPure ==
    [][(call' = "report" /\ now' = now) =>
           /\ rules' = rules /\ violations' = violations
           /\ disk' = disk
           /\ call = "report" => Content(report') = Content(report)]_vars

\* C21 as amended: a generate_report call leaves the rule list, the
\* violation list and the dataset unchanged and writes dq_report.json with
\* the report it built; a second call on the same list yields the same
\* counts, groups and flattened list.
C21_ReportKeepsEngine ==
    [][(call' = "report" /\ now' = now) =>
           /\ rules' = rules /\ violations' = violations /\ df' = df
           /\ disk'.json.exists
           /\ disk'.json.summary = report'.summary
           /\ disk'.json.all_violations = report'.all_violations
           /\ call = "report" => Content(report') = Content(report)]_vars

\* The second of two reports of one violation list, built at a later
\* instant than the first.
C21_Witness ==
    /\ Reported /\ pre.call = "report"
    /\ Len(violations) > 0
    /\ report.summary.timestamp > 0
    /\ disk.csv.exists

Severities == {"ERROR", "WARNING", "INFO"}

\* The ways of giving a catalog other severities: each severity replaced by
\* the next one, by the one before, or all of them by the same one.
Recolourings ==
    {[ERROR |-> "WARNING", WARNING |-> "INFO", INFO |-> "ERROR"],
     [ERROR |-> "INFO", WARNING |-> "ERROR", INFO |-> "WARNING"]}
    \cup {[ERROR |-> s, WARNING |-> s, INFO |-> s] : s \in Severities}

\* A violation list without its severities.
WithoutSeverity(vs) == [k \in 1..Len(vs) |-> [vs[k] EXCEPT !.severity = ""]]

\* After validate_data: every violation carries the name and the severity
\* of the rule it comes from, and the catalog with other severities ends
\* the same way with the same violations, severities aside.
SeverityClassifies ==
    Validated =>
        LET B == Blocks(rules, df, vday)
        IN  /\ outcome = "ok" =>
                \A i \in 1..Len(rules) : \A k \in 1..Len(B[i]) :
                    /\ ret[Offset(B, i) + k].rule_name = rules[i].name
                    /\ ret[Offset(B, i) + k].severity = rules[i].severity
            /\ \A f \in Recolourings :
                   LET other == [i \in 1..Len(rules) |->
                                    [rules[i] EXCEPT !.severity = f[rules[i].severity]]]
                       r     == ValidateData(other, <<>>, df, vday)
                   IN  /\ outcome = (IF r.fault = "" THEN "ok" ELSE r.fault)
                       /\ WithoutSeverity(r.violations) = WithoutSeverity(violations)
                       /\ \A k \in 1..Len(violations) :
                              r.violations[k].severity = f[violations[k].severity]

\* C22: a rule loaded without a severity gets ERROR (and one loaded with a
\* severity keeps it); every violation carries its rule's name and
\* severity; catalogs that differ only in severities yield violation lists
\* that differ only in the severity field.
C22_SeverityOnly ==
    /\ [][(call' = "load" /\ outcome' = "ok") =>
              \A doc \in DocPool :
                  (Len(doc.entries) = Len(rules') - Len(rules) /\ Load(doc)) =>
                      \A i \in 1..Len(doc.entries) :
                          rules'[Len(rules) + i].severity =
                              IF "severity" \in doc.entries[i].keys
                              THEN doc.entries[i].severity ELSE "ERROR"]_vars
    /\ []SeverityClassifies

\* A no_future_dates rule loaded without a severity has yielded a
\* violation of severity ERROR.
C22_Witness ==
    /\ Returned
    /\ \E i \in 1..Len(rules) :
           rules[i].rule_type = "no_future_dates" /\ rules[i].severity = "ERROR"
    /\ \E k \in 1..Len(ret) : ret[k].rule_name = "future" /\ ret[k].severity = "ERROR"

\* Whether the request's rules document cannot be loaded.
BadDocument(inp) == RulesOfInput(<<>>, inp).fault # ""

\* Whether a validator raises on the request's dataset with its rules, on
\* the day the request validated.
ValidatorFaults(inp, day) ==
    ValidateData(RulesOfInput(<<>>, inp).rules, <<>>, inp.df, day).fault # ""

Answered(q) == q.pc \in {"exited", "failed", "done"}

\* C23 as stated: a request whose rules document is malformed, or one of
\* whose validators faults, is answered with HTTP 400, and every other
\* request with status "success", whatever its number of violations.
C23_OutcomeMapping ==
    \A r \in DOMAIN requests :
        Answered(requests[r]) =>
            requests[r].response.status =
                IF BadDocument(requests[r].input) \/ ValidatorFaults(requests[r].input, requests[r].vday)
                THEN "http400" ELSE "success"

\* What is left of C23: custom rules that are malformed and validator
\* faults are answered with HTTP 400, completed runs with "success".
C23_OutcomeMappingButFiles ==
    \A r \in DOMAIN requests :
        (Answered(requests[r]) /\ requests[r].response.status # "SystemExit") =>
            requests[r].response.status =
                IF BadDocument(requests[r].input) \/ ValidatorFaults(requests[r].input, requests[r].vday)
                THEN "http400" ELSE "success"

\* A request with a malformed rules file has ended in SystemExit, and
\* another was answered 400 after a validator fault.
C23_Seen ==
    /\ \E r \in DOMAIN requests :
           requests[r].pc = "exited" /\ requests[r].input.source = "file"
    /\ \E r \in DOMAIN requests :
           requests[r].response.status = "http400" /\ ~BadDocument(requests[r].input)

\* C30: whatever the interleaving, the rules an engine holds and the
\* rules_applied count, the violations and the summary a request is
\* answered with are those its own dataset and rules give.
C30_RequestIsolation ==
    \A r \in DOMAIN requests :
        LET q == requests[r]
            l == RulesOfInput(<<>>, q.input)
            v == ValidateData(l.rules, <<>>, q.input.df, q.vday)
        IN  /\ q.pc # "idle" => q.rules = l.rules
            /\ q.pc = "validated" => q.violations = v.violations
            /\ q.pc = "done" =>
                   q.response = Success(l.rules, v.violations,
                                        BuildReport(v.violations, q.response.summary.timestamp))

\* A request with other rules and another dataset validated on day 0 and
\* was still in flight when, at instant DayLen or later, a request was
\* answered with violations.
C30_Witness ==
    \E r \in DOMAIN requests : \E o \in DOMAIN requests :
        /\ requests[r].pc = "done"
        /\ requests[r].response.violations_count > 0
        /\ requests[r].response.summary.timestamp >= DayLen
        /\ requests[o].pc = "validated"
        /\ requests[o].vday = 0
        /\ requests[o].rules # requests[r].rules
        /\ requests[o].rules # <<>>
        /\ requests[o].input.df # requests[r].input.df

\* The positions of the table the request read whose row satisfies P.
RowsWhere(P(_)) == {i \in 1..Len(metrics.table) : P(metrics.table[i])}

Completed(s) == s.status = "COMPLETED"

\* processed_at minus received_at is defined and not negative
Turned(s) ==
    /\ s.processed_at.k = "ts" /\ s.received_at.k = "ts"
    /\ s.processed_at.v >= s.received_at.v

Counted(s) ==
    /\ Completed(s) /\ Turned(s)
    /\ (metrics.arg.given /\ metrics.arg.value # "") => s.assay = metrics.arg.value

TatAsStated ==
    /\ metrics.outcome = "ok"
    /\ metrics.total_specimens = Cardinality(RowsWhere(Counted))
    /\ RowsWhere(Counted) = {} =>
           /\ metrics.p50 = Zero /\ metrics.p90 = Zero /\ metrics.p99 = Zero
           /\ metrics.total_specimens = 0

\* C24: calculate_tat_metrics counts exactly the COMPLETED rows (of the
\* given assay) whose turnaround is defined and not negative, and returns
\* zero percentiles and total_specimens = 0 when there is none.
C24_TatCounts == metrics.endpoint = "tat" => TatAsStated

\* The same on a table that holds a specimen.
C24_TatCountsOnRows == (metrics.endpoint = "tat" /\ metrics.table # <<>>) => TatAsStated

Bucket(s) == FloorTo(s.processed_at, metrics.arg)

RECURSIVE SumCounts(_)
SumCounts(points) ==
    IF points = <<>> THEN 0 ELSE Head(points).count + SumCounts(Tail(points))

ThroughputPoints ==
    /\ metrics.outcome = "ok"
    /\ \A p, q \in 1..Len(metrics.data) :
           p # q => metrics.data[p].timestamp # metrics.data[q].timestamp
    /\ \A p \in 1..Len(metrics.data) :
           /\ metrics.data[p].count >= 1
           /\ metrics.data[p].count =
                  Cardinality(RowsWhere(LAMBDA s : Completed(s) /\ Bucket(s) = metrics.data[p].timestamp))
    /\ RowsWhere(Completed) = {} => metrics.data = <<>>

ThroughputAsStated ==
    /\ ThroughputPoints
    /\ \A i \in RowsWhere(Completed) :
           \E p \in 1..Len(metrics.data) : metrics.data[p].timestamp = Bucket(metrics.table[i])
    /\ SumCounts(metrics.data) = Cardinality(RowsWhere(Completed))

\* C25: calculate_throughput returns one point per time bucket holding a
\* COMPLETED specimen, with the number of COMPLETED specimens of the
\* bucket, so that the counts sum to the number of COMPLETED specimens;
\* the list is empty when no specimen is COMPLETED.
C25_Throughput == metrics.endpoint = "throughput" => ThroughputAsStated

\* On a table that holds a specimen: the points are as stated, and they
\* count the COMPLETED specimens that have a processed_at.
C25_ThroughputOnRows ==
    (metrics.endpoint = "throughput" /\ metrics.table # <<>>) =>
        /\ ThroughputPoints
        /\ SumCounts(metrics.data) =
               Cardinality(RowsWhere(LAMBDA s : Completed(s) /\ s.processed_at.k = "ts"))

ErrorsAsStated ==
    /\ metrics.outcome = "ok"
    /\ metrics.total_specimens = Len(metrics.table)
    /\ metrics.total_errors = Cardinality(RowsWhere(LAMBDA s : s.status = "ERROR"))
    /\ metrics.total_errors <= metrics.total_specimens
    /\ metrics.table # <<>> =>
           metrics.overall_error_rate = Frac(metrics.total_errors, metrics.total_specimens)
    /\ metrics.table = <<>> =>
           /\ metrics.by_machine = {} /\ metrics.by_error_code = {}
           /\ metrics.total_errors = 0 /\ metrics.total_specimens = 0
           /\ metrics.overall_error_rate = Zero

\* C26: calculate_error_metrics reports the number of rows, the number of
\* rows in ERROR and their quotient, and for a dataset without rows empty
\* breakdowns and zeros instead of failing.
C26_ErrorTotals == metrics.endpoint = "errors" => ErrorsAsStated

\* The same on a table that holds a specimen.
C26_ErrorTotalsOnRows == (metrics.endpoint = "errors" /\ metrics.table # <<>>) => ErrorsAsStated

Breached(s) ==
    /\ Completed(s) /\ Turned(s)
    /\ s.processed_at.v - s.received_at.v > SLA_HOURS * 60

SlaAsStated ==
    /\ metrics.outcome = "ok"
    /\ metrics.total_completed = Cardinality(RowsWhere(LAMBDA s : Completed(s) /\ Turned(s)))
    /\ metrics.breach_count = Cardinality(RowsWhere(Breached))
    /\ metrics.breach_count <= metrics.total_completed
    /\ LET ids == SelectIdx([i \in 1..Len(metrics.table) |-> Breached(metrics.table[i])],
                            1, Len(metrics.table))
           n   == IF Len(ids) < SampleLimit THEN Len(ids) ELSE SampleLimit
       IN  /\ Len(metrics.sample_breaches) = n
           /\ \A k \in 1..n : metrics.sample_breaches[k].specimen_id = ids[k] + 1
    /\ RowsWhere(Completed) = {} =>
           /\ metrics.breach_count = 0 /\ metrics.total_completed = 0
           /\ metrics.breach_rate = Zero /\ metrics.sample_breaches = <<>>

\* C27: calculate_sla_metrics counts the COMPLETED rows of non-negative
\* turnaround and, among them, those whose turnaround exceeds SLA_HOURS * 60
\* minutes strictly; sample_breaches holds the first min(20, breach_count)
\* of these in dataset order; without COMPLETED rows all is zero or empty.
C27_SlaCounts == metrics.endpoint = "sla" => SlaAsStated

\* The same on a table that holds a specimen.
C27_SlaCountsOnRows == (metrics.endpoint = "sla" /\ metrics.table # <<>>) => SlaAsStated

\* C28 as stated: the violations CSV of the output directory lists the
\* violations of the JSON report written by the latest generate_report,
\* none is there when that report has no violation, and generate_report
\* returns no csv_file exactly when its run had no violation.
C28_FilesConsistent ==
    /\ disk.json.exists =>
           /\ disk.csv.exists => disk.csv.rows = disk.json.all_violations
           /\ disk.json.all_violations = <<>> => ~disk.csv.exists
    /\ Reported => (report.csv_file = FALSE <=> violations = <<>>)

\* What generate_report does keep: the CSV it writes in a run with
\* violations is that of the JSON report, and csv_file is None exactly when
\* the run had no violation.
C28_FilesOfRunsWithViolations ==
    /\ (disk.json.exists /\ disk.json.all_violations # <<>>) =>
           disk.csv.exists /\ disk.csv.rows = disk.json.all_violations
    /\ Reported => (report.csv_file = FALSE <=> violations = <<>>)

\* A report without violations was written and the CSV of an earlier run
\* is still there.
C28_StaleCsv ==
    /\ Reported /\ violations = <<>>
    /\ disk.json.all_violations = <<>>
    /\ disk.csv.exists /\ disk.csv.rows # <<>>

\* C29: the row_indices of every violation validate_data yields are
\* positions of the dataset, 0 <= i < rows, strictly ascending, and the
\* affected_rows the report gives for it is at most the number of rows.
C29_RowIndices ==
    Validated =>
        \A k \in 1..Len(violations) :
            LET idx == violations[k].row_indices
            IN  /\ \A j \in 1..Len(idx) : 0 <= idx[j] /\ idx[j] < df.n
                /\ \A j \in 1..(Len(idx) - 1) : idx[j] < idx[j + 1]
                /\ FlatViolation(violations[k]).affected_rows <= df.n

\* validate_data returned a violation that names every row of a dataset of
\* MaxRows rows.
C29_Witness ==
    /\ Returned
    /\ df.n = MaxRows
    /\ \E k \in 1..Len(ret) : Len(ret[k].row_indices) = MaxRows

====
